---- MODULE Spec2Model ----
(***************************************************************************)
(* Fire-incident reporting backend: the alert lifecycle handlers, the      *)
(* notification log and the in-process SSE fan-out of app.py and route/.   *)
(*                                                                         *)
(* The durable store is the MySQL database behind SQLAlchemy.  An alert    *)
(* transaction (Alert.query.get ... db.session.commit()) holds its row     *)
(* until it commits or rolls back; the notification table is written on    *)
(* a connection of its own (db.engine.connect()).  The clock has the       *)
(* one-second resolution of get_philippine_timestamp().                    *)
(*                                                                         *)
(* Requests are handled by one thread each.  SpecRegistry has two workers  *)
(* inside the registry functions under sse_lock, SpecSessions two workers  *)
(* updating the same alert, each through its own db.session (reading the   *)
(* row takes no lock), and SpecOtp two workers verifying login OTPs of     *)
(* route/userauth_route.py.                                                *)
(***************************************************************************)
EXTENDS Integers, Sequences, FiniteSets, TLC

\* ---------------------------------------------------------------- bounds
MaxAlerts == 1
MaxTime == 2
MaxRequests == 2
MaxChannels == 2
MaxPhotos == 2
MaxVideos == 1
MaxOtps == 1
MaxSessions == 3
TickSeconds == 601

\* --------------------------------------------------------------- domains
Threads == {"t1"}
Workers == {"w1", "w2"}
Unlocked == "unlocked"
UserIds == {1}
NoUser == 0
Messages == {"Fire truck dispatched"}
ResolveTimes == {"14:32"}
Missing == ""
NULL == "NULL"
NoTime == 0

AlertIds == 1..MaxAlerts
Channels == 1..MaxChannels
Times == 1..MaxTime

\* str(alert.user_id) if alert.user_id else 'unknown'
UserStr(u) == IF u = NoUser THEN "unknown" ELSE ToString(u)

Recipients == {UserStr(u) : u \in UserIds} \cup {"unknown"}

\* f'notif_{alert_id}_{get_philippine_timestamp()}'
NotifId(a, ts) == <<"notif", a, ts>>

NotifIds == {NotifId(a, ts) : a \in AlertIds, ts \in Times}

\* ------------------------------------------------- hosted media and URLs
\* Text is a sequence of tokens: the characters '/', '.', '"', '[', ']',
\* the separator ', ' of json.dumps, and the words between them.
MediaKinds == {"photos", "videos"}

\* resource_type of upload_to_cloudinary / delete_from_cloudinary
ResourceType(kind) == IF kind = "photos" THEN "image" ELSE "video"

Extension(kind) == IF kind = "photos" THEN "jpg" ELSE "mp4"

\* the name Cloudinary gives the i-th file of a kind uploaded for alert a
MediaName(a, kind, i) ==
    (IF kind = "photos" THEN "p" ELSE "v") \o ToString(a) \o "_" \o ToString(i)

\* result['public_id'] of an upload into folder fire_alerts/<kind>
PublicId(kind, name) == <<"fire_alerts", "/", kind, "/", name>>

\* result['secure_url'] of that upload
SecureUrl(kind, name) ==
    <<"https:", "/", "/", "res", ".", "cloudinary", ".", "com", "/",
      "cloud", "/", ResourceType(kind), "/", "upload", "/", "v1", "/">>
    \o PublicId(kind, name) \o <<".", Extension(kind)>>

RECURSIVE Concat(_)
\* the concatenation of a list of texts
Concat(texts) ==
    IF texts = <<>> THEN <<>> ELSE Head(texts) \o Concat(Tail(texts))

RECURSIVE Split(_, _)
\* text.split(sep): the list of the pieces between the separators
Split(text, sep) ==
    IF \A i \in 1..Len(text) : text[i] # sep THEN <<text>>
    ELSE LET k == CHOOSE i \in 1..Len(text) :
                      text[i] = sep /\ \A j \in 1..(i - 1) : text[j] # sep
         IN <<SubSeq(text, 1, k - 1)>>
                \o Split(SubSeq(text, k + 1, Len(text)), sep)

RECURSIVE Join(_, _)
\* sep.join(parts)
Join(parts, sep) ==
    IF parts = <<>> THEN <<>>
    ELSE IF Len(parts) = 1 THEN parts[1]
    ELSE parts[1] \o <<sep>> \o Join(Tail(parts), sep)

\* 'cloudinary.com' in text
HasCloudinaryHost(text) ==
    \E i \in 1..(Len(text) - 2) :
        text[i] = "cloudinary" /\ text[i + 1] = "." /\ text[i + 2] = "com"

RECURSIVE DumpItems(_)
DumpItems(urls) ==
    IF urls = <<>> THEN <<>>
    ELSE <<"\"">> \o Head(urls) \o <<"\"">>
         \o (IF Len(urls) > 1 THEN <<", ">> ELSE <<>>) \o DumpItems(Tail(urls))

\* json.dumps(urls) of a list of strings
json_dumps(urls) == <<"[">> \o DumpItems(urls) \o <<"]">>

\* json.loads(text) where text was written by json.dumps of a list of
\* strings: the strings between the quotes
json_loads(text) ==
    LET quotes == {i \in 1..Len(text) : text[i] = "\""}
        rank(i) == Cardinality({j \in quotes : j < i})
        opens == {i \in quotes : rank(i) % 2 = 0}
        close(i) == CHOOSE j \in quotes : j > i /\ rank(j) = rank(i) + 1
        nth(k) == CHOOSE i \in opens : rank(i) = 2 * (k - 1)
    IN [k \in 1..Cardinality(opens) |->
            SubSeq(text, nth(k) + 1, close(nth(k)) - 1)]

\* parts = url.split('/'); idx = parts.index('fire_alerts');
\* public_id = '/'.join(parts[idx:]).split('.')[0]
\* the result is a list: empty when 'fire_alerts' is not in parts
PublicIdsIn(text) ==
    LET parts == Split(text, "/")
        hits == {i \in 1..Len(parts) : parts[i] = <<"fire_alerts">>}
        idx == CHOOSE i \in hits : \A j \in hits : i <= j
    IN IF hits = {} THEN <<>>
       ELSE <<Split(Join(SubSeq(parts, idx, Len(parts)), "/"), ".")[1]>>

\* photo_filename / video_filename of an alert without such media (None)
NoText == <<>>

\* delete_alert_new and delete_spam_alert take the whole column for one
\* URL: the public ids they ask Cloudinary to destroy
PublicIdsOfColumn(column) ==
    IF column # NoText /\ HasCloudinaryHost(column) THEN PublicIdsIn(column)
    ELSE <<>>

\* delete_alert and clear_alerts of route/alert_route.py parse the column
\* and take every URL of the list
PublicIdsOfList(column) ==
    IF column = NoText THEN <<>>
    ELSE LET urls == json_loads(column)
         IN Concat([k \in 1..Len(urls) |->
                      IF HasCloudinaryHost(urls[k]) THEN PublicIdsIn(urls[k])
                      ELSE <<>>])

\* cloudinary.uploader.destroy(public_id, resource_type) for a list of ids
delete_from_cloudinary(assets, ids, resource_type) ==
    assets \ {<<ids[k], resource_type>> : k \in 1..Len(ids)}

\* ------------------------------------------------------------ alert rows
\* Alert(user_id=..., status='pending', resolved=False) with the column
\* defaults of model/alert_model.py
NewAlert_resolved(u, photo_urls, video_urls) ==
    [user_id |-> u, status |-> "pending", resolved |-> TRUE,
     resolved_at |-> NoTime, admin_response |-> NULL,
     responded_at |-> NoTime, resolve_time |-> NULL,
     photo_filename |-> IF photo_urls = <<>> THEN NoText
                        ELSE json_dumps(photo_urls),
     video_filename |-> IF video_urls = <<>> THEN NoText
                        ELSE json_dumps(video_urls)]

NewAlert(u, photo_urls, video_urls) ==
    [user_id |-> u, status |-> "pending", resolved |-> FALSE,
     resolved_at |-> NoTime, admin_response |-> NULL,
     responded_at |-> NoTime, resolve_time |-> NULL,
     photo_filename |-> IF photo_urls = <<>> THEN NoText
                        ELSE json_dumps(photo_urls),
     video_filename |-> IF video_urls = <<>> THEN NoText
                        ELSE json_dumps(video_urls)]

\* -------------------------------------------------- connection registry
Remove(s, x) ==
    LET idx == {i \in 1..Len(s) : s[i] = x}
        first == CHOOSE i \in idx : \A j \in idx : i <= j
    IN IF idx = {} THEN s
       ELSE [i \in 1..(Len(s) - 1) |-> IF i < first THEN s[i] ELSE s[i + 1]]

Range(s) == {s[i] : i \in 1..Len(s)}

remove_sse_connection_keeps(reg, u, q) == reg

remove_sse_connection_leaves_entry(reg, u, q) ==
    IF u \in DOMAIN reg /\ q \in Range(reg[u])
    THEN [reg EXCEPT ![u] = Remove(@, q)]
    ELSE reg

add_sse_connection(reg, u, q) ==
    IF u \in DOMAIN reg
    THEN [reg EXCEPT ![u] = Append(@, q)]
    ELSE reg @@ (u :> <<q>>)

remove_sse_connection(reg, u, q) ==
    IF u \in DOMAIN reg /\ q \in Range(reg[u])
    THEN LET rest == Remove(reg[u], q)
         IN IF rest = <<>>
            THEN [x \in DOMAIN reg \ {u} |-> reg[x]]
            ELSE [reg EXCEPT ![u] = rest]
    ELSE reg

\* Queue() is unbounded, so queue.put() raises for no channel
PutFails(q) == FALSE

FanoutTargets_first(reg, u) ==
    IF u \in DOMAIN reg /\ reg[u] # <<>> THEN {Head(reg[u])} ELSE {}

FanoutTargets_everyone(reg, u) ==
    UNION {Range(reg[x]) : x \in DOMAIN reg}

\* the channels whose queue receives the payload in send_sse_notification
FanoutTargets(reg, u) ==
    IF u \in DOMAIN reg THEN {q \in Range(reg[u]) : ~PutFails(q)} ELSE {}

PruneDead_creates_entry(reg, u) ==
    IF u \in DOMAIN reg
    THEN [reg EXCEPT ![u] = SelectSeq(@, LAMBDA q : ~PutFails(q))]
    ELSE reg @@ (u :> <<>>)

\* the registry after the dead-queue clean-up of send_sse_notification
PruneDead(reg, u) ==
    IF u \in DOMAIN reg
    THEN [reg EXCEPT ![u] = SelectSeq(@, LAMBDA q : ~PutFails(q))]
    ELSE reg

VARIABLES
    now,                     \* wall clock in whole seconds
    alerts,                  \* table alerts: id -> row
    next_id,                 \* auto-increment of alerts.id
    notifications,           \* table notifications: id -> row
    active_sse_connections,  \* user_id -> list of queues
    queues,                  \* Queue contents per channel
    sse,                     \* per connection: position of event_stream
    req,                     \* per handling thread: the admin request
    nreq,                    \* admin requests started so far
    hosted,                  \* assets held by Cloudinary: <<public_id, type>>
    out,                     \* response of the latest reporter request
    sse_lock,                \* the holder of sse_lock
    call,                    \* per worker: its call of a registry function
    session,                 \* per worker: the db.session of its request
    login_otp_store,         \* gmail -> the dict stored for it
    otp_entries,             \* the dicts created by send_login_otp
    verify                   \* per worker: its /verify-otp request

\* what the request handlers run by the worker threads work on
worker_vars == <<sse_lock, call, session, login_otp_store, otp_entries,
                 verify>>

vars == <<now, alerts, next_id, notifications, active_sse_connections,
          queues, sse, req, nreq, hosted, out, sse_lock, call, session,
          login_otp_store, otp_entries, verify>>

\* no reporter request answered yet
NoResponse ==
    [op |-> "none", code |-> 0, target |-> NotifId(0, 0), failed |-> 0]

\* the response of endpoint op with a status code
Response(op, code) == [NoResponse EXCEPT !.op = op, !.code = code]

\* no notification_data built yet
NoNotif ==
    [id |-> NotifId(0, 0), user_id |-> "unknown", type |-> "none",
     message |-> NULL, alert_id |-> "0", resolve_time |-> NULL,
     timestamp |-> NoTime, read |-> FALSE]

IdleReq ==
    [op |-> "none", pc |-> "idle", alert_id |-> 0, arg |-> Missing,
     notif_user |-> "unknown", notif |-> NoNotif, resp |-> 0, trace |-> <<>>]

\* sent: the data events written to the stream so far; torn: the transport
\* has called close() on the generator
NewSse == [pc |-> "new", user |-> "unknown", sent |-> <<>>, torn |-> FALSE]

\* call[w]: the call of add_sse_connection, remove_sse_connection or
\* send_sse_notification that worker w is in.  base is the registry and
\* the queues as they were when w acquired sse_lock; raised tells whether
\* the call ended with an exception
IdleCall ==
    [fn |-> "none", pc |-> "idle", user_id |-> "unknown", queue |-> 0,
     payload |-> NoNotif, i |-> 0,
     base |-> <<<<>>, <<>>>>, raised |-> FALSE]

\* more than one commit
Several == [op |-> "none", arg |-> Missing, same |-> FALSE]

\* session[w]: the request of worker w on an alert.  row is the Alert as
\* Alert.query.get loaded it into the worker's db.session; at is the time
\* of its commit; since holds the commit another worker made to the same
\* alert after the load, with same telling whether that worker had loaded
\* the same row, or Several twice when there was more than one
IdleSession ==
    [op |-> "none", pc |-> "idle", alert_id |-> 0, arg |-> Missing,
     row |-> NewAlert(NoUser, <<>>, <<>>), at |-> NoTime, since |-> <<>>,
     resp |-> 0]

\* verify[w]: the /verify-otp request of worker w; stored_data is the dict
\* it got from the store, target the dict whose attempts it increments and
\* read the attempts it read from it
IdleVerify ==
    [pc |-> "idle", gmail |-> Missing, otp |-> Missing, stored_data |-> 0,
     target |-> 0, read |-> 0, resp |-> 0]

Init ==
    /\ now = 1
    /\ alerts = <<>>
    /\ next_id = 1
    /\ notifications = <<>>
    /\ active_sse_connections = <<>>
    /\ queues = [c \in Channels |-> <<>>]
    /\ sse = [c \in Channels |-> NewSse]
    /\ req = [t \in Threads |-> IdleReq]
    /\ nreq = 0
    /\ hosted = {}
    /\ out = NoResponse
    /\ sse_lock = Unlocked
    /\ call = [w \in Workers |-> IdleCall]
    /\ session = [w \in Workers |-> IdleSession]
    /\ login_otp_store = <<>>
    /\ otp_entries = <<>>
    /\ verify = [w \in Workers |-> IdleVerify]

\* the clock advances
Tick ==
    /\ now < MaxTime
    /\ now' = now + 1
    /\ UNCHANGED <<alerts, next_id, notifications, active_sse_connections,
                   queues, sse, req, nreq,
                   hosted, out>>
    /\ UNCHANGED worker_vars

\* ------------------------------------------------- live channel handler
\* event_stream: the yield the generator is suspended at
YieldPoints == {"connected", "data", "heartbeat"}

\* first next(): queue = Queue(); add_sse_connection(user_id, queue);
\* yield the connection-confirmed event
SseConnect(c, u) ==
    /\ sse[c].pc = "new"
    /\ \A b \in Channels : b < c => sse[b].pc # "new"
    /\ active_sse_connections' = add_sse_connection(active_sse_connections, u, c)
    /\ sse' = [sse EXCEPT ![c].pc = "connected", ![c].user = u]
    /\ UNCHANGED <<now, alerts, next_id, notifications, queues, req, nreq,
                   hosted, out>>
    /\ UNCHANGED worker_vars

SseNext_newest_first(c) ==
    /\ sse[c].pc \in YieldPoints
    /\ ~sse[c].torn
    /\ IF queues[c] # <<>>
       THEN /\ queues' = [queues EXCEPT ![c] = SubSeq(@, 1, Len(@) - 1)]
            /\ sse' = [sse EXCEPT ![c].pc = "data",
                                  ![c].sent = Append(@, queues[c][Len(queues[c])])]
       ELSE /\ queues' = queues
            /\ sse' = [sse EXCEPT ![c].pc = "heartbeat"]
    /\ UNCHANGED <<now, alerts, next_id, notifications,
                   active_sse_connections, req, nreq,
                   hosted, out>>
    /\ UNCHANGED worker_vars

SseNext_drops(c) ==
    /\ sse[c].pc \in YieldPoints
    /\ ~sse[c].torn
    /\ IF queues[c] # <<>>
       THEN /\ queues' = [queues EXCEPT ![c] = Tail(@)]
            /\ sse' = [sse EXCEPT ![c].pc = "heartbeat"]
       ELSE /\ queues' = queues
            /\ sse' = [sse EXCEPT ![c].pc = "heartbeat"]
    /\ UNCHANGED <<now, alerts, next_id, notifications,
                   active_sse_connections, req, nreq,
                   hosted, out>>
    /\ UNCHANGED worker_vars

\* next(): queue.get(timeout=30) returns an item, which is yielded as a
\* data event, or raises Empty, and a heartbeat is yielded
SseNext(c) ==
    /\ sse[c].pc \in YieldPoints
    /\ ~sse[c].torn
    /\ IF queues[c] # <<>>
       THEN /\ queues' = [queues EXCEPT ![c] = Tail(@)]
            /\ sse' = [sse EXCEPT ![c].pc = "data",
                                  ![c].sent = Append(@, Head(queues[c]))]
       ELSE /\ queues' = queues
            /\ sse' = [sse EXCEPT ![c].pc = "heartbeat"]
    /\ UNCHANGED <<now, alerts, next_id, notifications,
                   active_sse_connections, req, nreq,
                   hosted, out>>
    /\ UNCHANGED worker_vars

\* the yield of the data event is inside the inner try, whose bare except
\* also catches GeneratorExit and yields a heartbeat
IgnoresGeneratorExit(pc) == pc = "data"

\* close() of the generator: the transport tears the stream down.  Where
\* GeneratorExit reaches the finally block the generator ends and its
\* queue is garbage
SseClose(c) ==
    /\ sse[c].pc \in YieldPoints
    /\ IF IgnoresGeneratorExit(sse[c].pc)
       THEN /\ sse' = [sse EXCEPT ![c].pc = "heartbeat", ![c].torn = TRUE]
            /\ UNCHANGED <<active_sse_connections, queues>>
       ELSE /\ sse' = [sse EXCEPT ![c].pc = "closed", ![c].torn = TRUE]
            /\ active_sse_connections' =
                   remove_sse_connection(active_sse_connections, sse[c].user, c)
            /\ queues' = [queues EXCEPT ![c] = <<>>]
    /\ UNCHANGED <<now, alerts, next_id, notifications, req, nreq,
                   hosted, out>>
    /\ UNCHANGED worker_vars

\* ------------------------------------------------------ alert lifecycle
Ops == {"respond_alert", "resolve_alert_with_time", "delete_alert_new",
        "mark_spam", "restore_spam_alert", "delete_spam_alert",
        "resolve_alert", "unresolve_alert", "alert_route.mark_spam",
        "alert_route.resolve_alert", "alert_route.delete_alert"}

respond_alert_keeps_status(row, message, t) ==
    [row EXCEPT !.admin_response = message, !.responded_at = t]

respond_alert(row, message, t) ==
    [row EXCEPT !.admin_response = message, !.responded_at = t,
                !.status = "received"]

resolve_alert_with_time_keeps_flag(row, resolve_time, t) ==
    [row EXCEPT !.status = "resolved", !.resolved_at = t,
                !.resolve_time = resolve_time]

resolve_alert_with_time_drops_time(row, resolve_time, t) ==
    [row EXCEPT !.status = "resolved", !.resolved = TRUE, !.resolved_at = t]

resolve_alert_with_time(row, resolve_time, t) ==
    [row EXCEPT !.status = "resolved", !.resolved = TRUE,
                !.resolved_at = t, !.resolve_time = resolve_time]

mark_spam(row, t) ==
    [row EXCEPT !.status = "spam", !.resolved = TRUE, !.resolved_at = t]

restore_spam_alert_to_received(row) ==
    [row EXCEPT !.status = "received", !.resolved = FALSE,
                !.resolved_at = NoTime]

restore_spam_alert(row) ==
    [row EXCEPT !.status = "pending", !.resolved = FALSE,
                !.resolved_at = NoTime]

resolve_alert(row, t) ==
    [row EXCEPT !.resolved = TRUE, !.resolved_at = t]

unresolve_alert_keeps_time(row) ==
    [row EXCEPT !.resolved = FALSE]

unresolve_alert(row) ==
    [row EXCEPT !.resolved = FALSE, !.resolved_at = NoTime]

alert_route_mark_spam(row, t) ==
    [row EXCEPT !.status = "spam", !.resolved = TRUE, !.resolved_at = t]

alert_route_resolve_alert(row, t) ==
    [row EXCEPT !.status = "resolved", !.resolved = TRUE, !.resolved_at = t]

\* the attribute assignments of each handler that updates the row
Update(op, row, arg, t) ==
    CASE op = "respond_alert" -> respond_alert(row, arg, t)
      [] op = "resolve_alert_with_time" -> resolve_alert_with_time(row, arg, t)
      [] op = "mark_spam" -> mark_spam(row, t)
      [] op = "restore_spam_alert" -> restore_spam_alert(row)
      [] op = "resolve_alert" -> resolve_alert(row, t)
      [] op = "unresolve_alert" -> unresolve_alert(row)
      [] op = "alert_route.mark_spam" -> alert_route_mark_spam(row, t)
      [] op = "alert_route.resolve_alert" -> alert_route_resolve_alert(row, t)
      [] OTHER -> row

\* handlers that end in db.session.delete(alert)
Deletes(op) ==
    op \in {"delete_alert_new", "delete_spam_alert", "alert_route.delete_alert"}

RequiresArg_never(op) == FALSE

\* handlers that read a required field from the JSON body
RequiresArg(op) == op \in {"respond_alert", "resolve_alert_with_time"}

ArgsFor(op) ==
    CASE op = "respond_alert" -> Messages \cup {Missing}
      [] op = "resolve_alert_with_time" -> ResolveTimes \cup {Missing}
      [] OTHER -> {Missing}

\* handlers that build notification_data and call save_notification
Notifies(op) ==
    op \in {"respond_alert", "resolve_alert_with_time", "delete_alert_new",
            "mark_spam", "restore_spam_alert"}

\* respond_alert returns early, without a notification, when the alert
\* has no user_id
Emits(op, user) ==
    Notifies(op) /\ (op = "respond_alert" => user # "unknown")

NotifType_restored_as_spam(op) ==
    CASE op = "respond_alert" -> "response"
      [] op = "resolve_alert_with_time" -> "resolved"
      [] op = "delete_alert_new" -> "deleted"
      [] OTHER -> "spam"

NotifType(op) ==
    CASE op = "respond_alert" -> "response"
      [] op = "resolve_alert_with_time" -> "resolved"
      [] op = "delete_alert_new" -> "deleted"
      [] op = "mark_spam" -> "spam"
      [] op = "restore_spam_alert" -> "restored"
      [] OTHER -> "none"

NotifMessage(op, arg) ==
    CASE op = "respond_alert" -> arg
      [] op = "resolve_alert_with_time" -> "Fire has been extinguished"
      [] op = "delete_alert_new" -> "Your fire alert has been removed"
      [] op = "mark_spam" -> "Your fire alert has been marked as spam"
      [] op = "restore_spam_alert" -> "Your fire alert has been restored"
      [] OTHER -> NULL

\* notification_data of the handlers
NotificationData(op, a, user, arg, t) ==
    [id |-> NotifId(a, t), user_id |-> user, type |-> NotifType(op),
     message |-> NotifMessage(op, arg), alert_id |-> ToString(a),
     resolve_time |-> IF op = "resolve_alert_with_time" THEN arg ELSE NULL,
     timestamp |-> t, read |-> FALSE]

FirstPc_notify_first(op) ==
    IF op \in {"delete_alert_new", "mark_spam"} THEN "save"
    ELSE IF Deletes(op) THEN "media" ELSE "commit"

\* the first durable step of a handler once the alert is loaded:
\* delete_alert_new saves the notification before anything else, the other
\* deleting handlers start with the hosted media
FirstPc(op) ==
    IF op = "delete_alert_new" THEN "save"
    ELSE IF Deletes(op) THEN "media" ELSE "commit"

Events(r) == Range(r.trace)

\* the handler returns: its locals are gone, the response is out
Finish(r, code) ==
    [IdleReq EXCEPT !.pc = "done", !.resp = code, !.trace = r.trace]

\* the handler after save_notification returned
Proceed(r) ==
    IF "commit" \in Events(r) THEN Finish(r, 200)
    ELSE IF Deletes(r.op) THEN [r EXCEPT !.pc = "media"]
    ELSE [r EXCEPT !.pc = "commit"]

\* no other transaction holds the row of alert a
RowFree(t, a) ==
    \A o \in Threads \ {t} :
        ~(req[o].alert_id = a /\ req[o].pc \in {"commit", "save", "fanout", "media"}
          /\ "commit" \notin Events(req[o]))

\* request parsing, validation and Alert.query.get of an admin handler
StartRequest(t, op, a, arg) ==
    /\ req[t].pc \in {"idle", "done"}
    /\ nreq < MaxRequests
    /\ RowFree(t, a)
    /\ nreq' = nreq + 1
    /\ LET r == [IdleReq EXCEPT !.op = op, !.alert_id = a, !.arg = arg]
       IN req' = [req EXCEPT ![t] =
            IF RequiresArg(op) /\ (a = 0 \/ arg = Missing) THEN Finish(r, 400)
            ELSE IF a \notin DOMAIN alerts THEN Finish(r, 404)
            ELSE [r EXCEPT !.pc = FirstPc(op),
                           !.notif_user = UserStr(alerts[a].user_id)]]
    /\ UNCHANGED <<now, alerts, next_id, notifications,
                   active_sse_connections, queues, sse,
                   hosted, out>>
    /\ UNCHANGED worker_vars

\* db.session.commit() succeeds
CommitOk(t) ==
    /\ req[t].pc = "commit"
    /\ LET r == req[t]
           a == r.alert_id
           done == [r EXCEPT !.trace = Append(@, "commit")]
       IN /\ alerts' = IF Deletes(r.op)
                       THEN [x \in DOMAIN alerts \ {a} |-> alerts[x]]
                       ELSE [alerts EXCEPT ![a] = Update(r.op, @, r.arg, now)]
          /\ req' = [req EXCEPT ![t] =
                IF Emits(r.op, r.notif_user) /\ r.op # "delete_alert_new"
                THEN [done EXCEPT !.pc = "save"]
                ELSE Finish(done, 200)]
    /\ UNCHANGED <<now, next_id, notifications, active_sse_connections,
                   queues, sse, nreq,
                   hosted, out>>
    /\ UNCHANGED worker_vars

\* db.session.commit() raises: except branch, db.session.rollback(), 500
CommitFails(t) ==
    /\ req[t].pc = "commit"
    /\ req' = [req EXCEPT ![t] =
            Finish([req[t] EXCEPT !.trace = Append(@, "commit_failed")], 500)]
    /\ UNCHANGED <<now, alerts, next_id, notifications,
                   active_sse_connections, queues, sse, nreq,
                   hosted, out>>
    /\ UNCHANGED worker_vars

\* ------------------------------------------------------ save_notification
\* notification_data as the handler of request r builds it at time t
Built(r, t) == NotificationData(r.op, r.alert_id, r.notif_user, r.arg, t)

AfterInsert_always_push(r, ok) ==
    IF r.notif.user_id # "unknown" THEN [r EXCEPT !.pc = "fanout"]
    ELSE Proceed(r)

AfterInsert_never_push(r, ok) == Proceed(r)

AfterInsert_push_unknown(r, ok) ==
    IF ok THEN [r EXCEPT !.pc = "fanout"] ELSE Proceed(r)

\* save_notification after the INSERT: send_sse_notification runs only
\* when the INSERT committed and user_id is neither empty nor 'unknown'
AfterInsert(r, ok) ==
    IF ok /\ r.notif.user_id # "unknown" THEN [r EXCEPT !.pc = "fanout"]
    ELSE Proceed(r)

InsertFailed_raises(r) == Finish(r, 500)

\* the except branch of save_notification prints the error and returns
InsertFailed(r) == AfterInsert(r, FALSE)

BindsAllColumns_always(op) == TRUE

\* the INSERT of save_notification binds :alert_location from
\* notification_data; the dict built by delete_alert_new has no such key,
\* so conn.execute raises before a statement is sent
BindsAllColumns(op) == op # "delete_alert_new"

\* INSERT INTO notifications ...; conn.commit() succeeds
SaveOk(t) ==
    /\ req[t].pc = "save"
    /\ BindsAllColumns(req[t].op)
    /\ LET n == Built(req[t], now)
       IN /\ n.id \notin DOMAIN notifications
          /\ notifications' = notifications @@ (n.id :> n)
          /\ req' = [req EXCEPT ![t] =
                AfterInsert([req[t] EXCEPT !.notif = n,
                                           !.trace = Append(@, "log")], TRUE)]
    /\ UNCHANGED <<now, alerts, next_id, active_sse_connections, queues,
                   sse, nreq,
                   hosted, out>>
    /\ UNCHANGED worker_vars

\* the INSERT is rejected: notifications.id is the primary key
SaveDuplicate(t) ==
    /\ req[t].pc = "save"
    /\ BindsAllColumns(req[t].op)
    /\ LET n == Built(req[t], now)
       IN /\ n.id \in DOMAIN notifications
          /\ req' = [req EXCEPT ![t] =
                InsertFailed([req[t] EXCEPT !.notif = n,
                                  !.trace = Append(@, "log_duplicate")])]
    /\ UNCHANGED <<now, alerts, next_id, notifications,
                   active_sse_connections, queues, sse, nreq,
                   hosted, out>>
    /\ UNCHANGED worker_vars

\* conn.execute raises for the bind parameter the dict does not supply:
\* nothing reaches the store, the except branch prints and returns
SaveInvalid(t) ==
    /\ req[t].pc = "save"
    /\ ~BindsAllColumns(req[t].op)
    /\ req' = [req EXCEPT ![t] =
            InsertFailed([req[t] EXCEPT !.notif = Built(req[t], now),
                                        !.trace = Append(@, "log_invalid")])]
    /\ UNCHANGED <<now, alerts, next_id, notifications,
                   active_sse_connections, queues, sse, nreq,
                   hosted, out>>
    /\ UNCHANGED worker_vars

\* engine.connect(), the INSERT or its commit raises: the store fails
SaveFails(t) ==
    /\ req[t].pc = "save"
    /\ req' = [req EXCEPT ![t] =
            InsertFailed([req[t] EXCEPT !.notif = Built(req[t], now),
                                        !.trace = Append(@, "log_failed")])]
    /\ UNCHANGED <<now, alerts, next_id, notifications,
                   active_sse_connections, queues, sse, nreq,
                   hosted, out>>
    /\ UNCHANGED worker_vars

\* send_sse_notification(user_id, notification_data), under sse_lock
Fanout(t) ==
    /\ req[t].pc = "fanout"
    /\ LET u == req[t].notif.user_id
           targets == FanoutTargets(active_sse_connections, u)
       IN /\ queues' = [c \in Channels |->
                          IF c \in targets THEN Append(queues[c], req[t].notif)
                          ELSE queues[c]]
          /\ active_sse_connections' = PruneDead(active_sse_connections, u)
    /\ req' = [req EXCEPT ![t] =
            Proceed([req[t] EXCEPT !.trace = Append(@, "fanout")])]
    /\ UNCHANGED <<now, alerts, next_id, notifications, sse, nreq,
                   hosted, out>>
    /\ UNCHANGED worker_vars

\* ------------------------------------------------ release of hosted media
\* the public ids a deleting handler asks Cloudinary to destroy for a column
PublicIdsFor_every_url(op, column) == PublicIdsOfList(column)

PublicIdsFor(op, column) ==
    IF op = "alert_route.delete_alert" THEN PublicIdsOfList(column)
    ELSE PublicIdsOfColumn(column)

ReleaseMedia_aborts(t, cloud_ok) ==
    /\ req[t].pc = "media"
    /\ req' = [req EXCEPT ![t] =
            IF cloud_ok THEN [@ EXCEPT !.pc = "commit",
                                       !.trace = Append(@, "media")]
            ELSE Finish([@ EXCEPT !.trace = Append(@, "media_failed")], 500)]
    /\ UNCHANGED <<now, alerts, next_id, notifications,
                   active_sse_connections, queues, sse, nreq, hosted, out>>
    /\ UNCHANGED worker_vars

\* "Delete media from Cloudinary" of the deleting handlers; destroy calls
\* that fail are printed and the handler goes on
ReleaseMedia(t, cloud_ok) ==
    /\ req[t].pc = "media"
    /\ LET r == req[t]
           row == alerts[r.alert_id]
           photos == PublicIdsFor(r.op, row.photo_filename)
           videos == PublicIdsFor(r.op, row.video_filename)
       IN hosted' = IF cloud_ok
                    THEN delete_from_cloudinary(
                             delete_from_cloudinary(hosted, photos, "image"),
                             videos, "video")
                    ELSE hosted
    /\ req' = [req EXCEPT ![t] =
            [@ EXCEPT !.pc = "commit",
                      !.trace = Append(@, IF cloud_ok THEN "media"
                                          ELSE "media_failed")]]
    /\ UNCHANGED <<now, alerts, next_id, notifications,
                   active_sse_connections, queues, sse, nreq, out>>
    /\ UNCHANGED worker_vars

\* clear_alerts: for every alert of the reporter, release the media of the
\* lists, delete the row; one commit at the end
clear_alerts(u, cloud_ok) ==
    /\ \A t \in Threads : req[t].pc \in {"idle", "done"}
    /\ LET mine == {a \in DOMAIN alerts : alerts[a].user_id = u}
           ids(kind) ==
               UNION {Range(PublicIdsOfList(
                          IF kind = "photos" THEN alerts[a].photo_filename
                          ELSE alerts[a].video_filename)) : a \in mine}
           gone == {<<id, "image">> : id \in ids("photos")}
                   \cup {<<id, "video">> : id \in ids("videos")}
       IN /\ hosted' = IF cloud_ok THEN hosted \ gone ELSE hosted
          /\ alerts' = [a \in DOMAIN alerts \ mine |-> alerts[a]]
    /\ out' = [Response("clear_alerts", 200)
                  EXCEPT !.failed = IF cloud_ok THEN 0 ELSE 1]
    /\ UNCHANGED <<now, next_id, notifications, active_sse_connections,
                   queues, sse, req, nreq>>
    /\ UNCHANGED worker_vars

\* ------------------------------------------------------------ send_alert
\* photo_urls / video_urls: the secure_url of every upload that succeeded,
\* in the order of the files; results[i] tells whether upload i succeeded
UploadedUrls(a, kind, results) ==
    LET f[i \in 0..Len(results)] ==
            IF i = 0 THEN <<>>
            ELSE IF results[i]
                 THEN Append(f[i - 1], SecureUrl(kind, MediaName(a, kind, i)))
                 ELSE f[i - 1]
    IN f[Len(results)]

\* what Cloudinary holds after those uploads
UploadedAssets(a, kind, results) ==
    {<<PublicId(kind, MediaName(a, kind, i)), ResourceType(kind)>> :
        i \in {j \in 1..Len(results) : results[j]}}

Failures(results) == Cardinality({i \in 1..Len(results) : ~results[i]})

\* all uploads failed: 500 'Failed to upload media files'
UploadsRejected_any_failure(photos, videos) ==
    Failures(photos) + Failures(videos) > 0

UploadsRejected(photos, videos) ==
    Failures(photos) = Len(photos) /\ Failures(videos) = Len(videos)

\* validation, media upload and INSERT of a new alert; photos and videos
\* are the outcomes of the uploads of the files received
send_alert(u, has_location, photos, videos) ==
    /\ next_id <= MaxAlerts
    /\ LET a == next_id
           photo_urls == UploadedUrls(a, "photos", photos)
           video_urls == UploadedUrls(a, "videos", videos)
           uploaded == UploadedAssets(a, "photos", photos)
                       \cup UploadedAssets(a, "videos", videos)
           failed == Failures(photos) + Failures(videos)
       IN IF ~has_location \/ (photos = <<>> /\ videos = <<>>)
          THEN /\ out' = Response("send_alert", 400)
               /\ UNCHANGED <<alerts, next_id, hosted>>
          ELSE IF UploadsRejected(photos, videos)
          THEN /\ out' = [Response("send_alert", 500) EXCEPT !.failed = failed]
               /\ hosted' = hosted \cup uploaded
               /\ UNCHANGED <<alerts, next_id>>
          ELSE /\ alerts' = alerts @@ (a :> NewAlert(u, photo_urls, video_urls))
               /\ next_id' = next_id + 1
               /\ hosted' = hosted \cup uploaded
               /\ out' = [Response("send_alert", 200) EXCEPT !.failed = failed]
    /\ UNCHANGED <<now, notifications, active_sse_connections, queues, sse,
                   req, nreq>>
    /\ UNCHANGED worker_vars

\* ------------------------------------------------- notification_route.py
SetRead_toggles(n) == [n EXCEPT !.read = ~n.read]

\* SET `read` = TRUE
SetRead(n) == [n EXCEPT !.read = TRUE]

\* UPDATE notifications SET `read` = TRUE WHERE id = :notification_id
\* the UPDATE of a missing id changes no row and is no error: 200
mark_notification_read(id) ==
    /\ notifications' = [x \in DOMAIN notifications |->
                           IF x = id THEN SetRead(notifications[x])
                           ELSE notifications[x]]
    /\ out' = [Response("mark_notification_read", 200) EXCEPT !.target = id]
    /\ UNCHANGED <<now, alerts, next_id, active_sse_connections, queues,
                   sse, req, nreq, hosted>>
    /\ UNCHANGED worker_vars

\* UPDATE ... WHERE user_id = :user_id AND `read` = FALSE
\* without user_id in the body: 400
mark_all_read(u) ==
    /\ notifications' = [x \in DOMAIN notifications |->
                           IF notifications[x].user_id = u
                              /\ notifications[x].read = FALSE
                           THEN SetRead(notifications[x])
                           ELSE notifications[x]]
    /\ out' = Response("mark_all_read", IF u = Missing THEN 400 ELSE 200)
    /\ UNCHANGED <<now, alerts, next_id, active_sse_connections, queues,
                   sse, req, nreq, hosted>>
    /\ UNCHANGED worker_vars

\* DELETE FROM notifications WHERE id IN (ids): delete_notification for
\* one id that exists, bulk_delete_notifications for a list
DeleteNotifications(ids) ==
    /\ notifications' = [x \in DOMAIN notifications \ ids |-> notifications[x]]
    /\ UNCHANGED <<now, alerts, next_id, active_sse_connections, queues,
                   sse, req, nreq, hosted>>
    /\ UNCHANGED worker_vars

\* SELECT id ... WHERE id = :notification_id; no row: 404
delete_notification(id) ==
    /\ DeleteNotifications({id})
    /\ out' = [Response("delete_notification",
                        IF id \in DOMAIN notifications THEN 200 ELSE 404)
                  EXCEPT !.target = id]

\* an empty notification_ids list: 400
bulk_delete_notifications(ids) ==
    /\ DeleteNotifications(ids)
    /\ out' = Response("bulk_delete_notifications",
                       IF ids = {} THEN 400 ELSE 200)

\* --------------------------------------------------------------- listings
\* the rows of a table with the given ids
Rows(tbl, ids) == [x \in ids |-> tbl[x]]

IsActive(row) == row.resolved = FALSE
IsFlaggedResolved(row) == row.resolved = TRUE
IsStatusResolved(row) == row.status = "resolved"
IsSpam(row) == row.status = "spam"

\* Alert.query.filter_by(resolved=False), in app.py and in the blueprint
get_alerts(tbl) == Rows(tbl, {x \in DOMAIN tbl : IsActive(tbl[x])})

alert_route_get_alerts(tbl) == Rows(tbl, {x \in DOMAIN tbl : IsActive(tbl[x])})

\* app.py: Alert.query.filter_by(resolved=True)
get_resolved_alerts(tbl) == Rows(tbl, {x \in DOMAIN tbl : IsFlaggedResolved(tbl[x])})

\* route/alert_route.py: Alert.query.filter(Alert.status == 'resolved')
alert_route_get_resolved_alerts(tbl) == Rows(tbl, {x \in DOMAIN tbl : IsStatusResolved(tbl[x])})

\* Alert.query.filter_by(status='spam'), in app.py and in the blueprint
get_spam_alerts(tbl) == Rows(tbl, {x \in DOMAIN tbl : IsSpam(tbl[x])})

alert_route_get_spam_alerts(tbl) == Rows(tbl, {x \in DOMAIN tbl : IsSpam(tbl[x])})

\* SELECT * FROM notifications WHERE user_id = :user_id
get_user_notifications(log, u) ==
    Rows(log, {x \in DOMAIN log : log[x].user_id = u})

\* ------------------------------------- registry functions under sse_lock
\* the notification_data handed to send_sse_notification
Payloads ==
    {[NoNotif EXCEPT !.type = ty, !.user_id = "1"] : ty \in {"response", "resolved"}}

\* the queues held by the registry or by a call that is about to register
InUse ==
    UNION {Range(active_sse_connections[u]) : u \in DOMAIN active_sse_connections}
        \cup {call[w].queue : w \in {v \in Workers :
                                       call[v].fn = "add_sse_connection"}}

\* a worker calls one of the three functions and reaches 'with sse_lock'.
\* event_stream registers a Queue() it has just created
RegistryCall(w, fn, u, q, payload) ==
    /\ call[w].pc = "idle"
    /\ fn = "add_sse_connection" => q \notin InUse /\ queues[q] = <<>>
    /\ fn = "send_sse_notification"
           => \A c \in Channels : Len(queues[c]) < MaxRequests
    /\ call' = [call EXCEPT ![w] =
                   [IdleCall EXCEPT !.fn = fn, !.pc = "lock", !.user_id = u,
                                    !.queue = q, !.payload = payload]]
    /\ UNCHANGED <<now, alerts, next_id, notifications,
                   active_sse_connections, queues, sse, req, nreq, hosted,
                   out, sse_lock, session, login_otp_store, otp_entries,
                   verify>>

Acquire_unguarded(w) ==
    /\ call[w].pc = "lock"
    /\ sse_lock' = w
    /\ call' = [call EXCEPT ![w].pc = "test",
                            ![w].base = <<active_sse_connections, queues>>]
    /\ UNCHANGED <<now, alerts, next_id, notifications,
                   active_sse_connections, queues, sse, req, nreq, hosted,
                   out, session, login_otp_store, otp_entries, verify>>

\* with sse_lock: blocks until the lock is free, then holds it
Acquire(w) ==
    /\ call[w].pc = "lock"
    /\ sse_lock = Unlocked
    /\ sse_lock' = w
    /\ call' = [call EXCEPT ![w].pc = "test",
                            ![w].base = <<active_sse_connections, queues>>]
    /\ UNCHANGED <<now, alerts, next_id, notifications,
                   active_sse_connections, queues, sse, req, nreq, hosted,
                   out, session, login_otp_store, otp_entries, verify>>

\* 'if user_id not in active_sse_connections' of add_sse_connection and
\* 'if user_id in active_sse_connections' of the other two
TestUser(w) ==
    /\ call[w].pc = "test"
    /\ LET known == call[w].user_id \in DOMAIN active_sse_connections
           next ==
               CASE call[w].fn = "add_sse_connection" ->
                        IF known THEN "append" ELSE "create"
                 [] call[w].fn = "remove_sse_connection" ->
                        IF known THEN "remove" ELSE "unlock"
                 [] OTHER -> IF known THEN "put" ELSE "unlock"
       IN call' = [call EXCEPT ![w].pc = next, ![w].i = 1]
    /\ UNCHANGED <<now, alerts, next_id, notifications,
                   active_sse_connections, queues, sse, req, nreq, hosted,
                   out, sse_lock, session, login_otp_store, otp_entries,
                   verify>>

\* active_sse_connections[user_id] = []
AddCreate(w) ==
    /\ call[w].pc = "create"
    /\ active_sse_connections' =
           [u \in DOMAIN active_sse_connections \cup {call[w].user_id} |->
               IF u = call[w].user_id THEN <<>> ELSE active_sse_connections[u]]
    /\ call' = [call EXCEPT ![w].pc = "append"]
    /\ UNCHANGED <<now, alerts, next_id, notifications, queues, sse, req,
                   nreq, hosted, out, sse_lock, session, login_otp_store,
                   otp_entries, verify>>

\* active_sse_connections[user_id].append(queue); a missing key raises
\* KeyError
AddAppend(w) ==
    /\ call[w].pc = "append"
    /\ IF call[w].user_id \in DOMAIN active_sse_connections
       THEN /\ active_sse_connections' =
                   [active_sse_connections EXCEPT
                       ![call[w].user_id] = Append(@, call[w].queue)]
            /\ call' = [call EXCEPT ![w].pc = "unlock"]
       ELSE /\ active_sse_connections' = active_sse_connections
            /\ call' = [call EXCEPT ![w].pc = "unlock", ![w].raised = TRUE]
    /\ UNCHANGED <<now, alerts, next_id, notifications, queues, sse, req,
                   nreq, hosted, out, sse_lock, session, login_otp_store,
                   otp_entries, verify>>

RemoveItem_raises(w) ==
    /\ call[w].pc = "remove"
    /\ LET u == call[w].user_id
       IN IF u \in DOMAIN active_sse_connections
             /\ call[w].queue \in Range(active_sse_connections[u])
          THEN /\ active_sse_connections' =
                      [active_sse_connections EXCEPT
                          ![u] = Remove(@, call[w].queue)]
               /\ call' = [call EXCEPT ![w].pc = "delete"]
          ELSE /\ active_sse_connections' = active_sse_connections
               /\ call' = [call EXCEPT ![w].pc = "unlock", ![w].raised = TRUE]
    /\ UNCHANGED <<now, alerts, next_id, notifications, queues, sse, req,
                   nreq, hosted, out, sse_lock, session, login_otp_store,
                   otp_entries, verify>>

\* active_sse_connections[user_id].remove(queue); the ValueError of a
\* queue that is not in the list is passed over, a missing key raises
\* KeyError
RemoveItem(w) ==
    /\ call[w].pc = "remove"
    /\ LET u == call[w].user_id
       IN IF u \notin DOMAIN active_sse_connections
          THEN /\ active_sse_connections' = active_sse_connections
               /\ call' = [call EXCEPT ![w].pc = "unlock", ![w].raised = TRUE]
          ELSE IF call[w].queue \in Range(active_sse_connections[u])
          THEN /\ active_sse_connections' =
                      [active_sse_connections EXCEPT
                          ![u] = Remove(@, call[w].queue)]
               /\ call' = [call EXCEPT ![w].pc = "delete"]
          ELSE /\ active_sse_connections' = active_sse_connections
               /\ call' = [call EXCEPT ![w].pc = "unlock"]
    /\ UNCHANGED <<now, alerts, next_id, notifications, queues, sse, req,
                   nreq, hosted, out, sse_lock, session, login_otp_store,
                   otp_entries, verify>>

\* if not active_sse_connections[user_id]: del active_sse_connections[user_id]
RemoveDelete(w) ==
    /\ call[w].pc = "delete"
    /\ LET u == call[w].user_id
       IN IF u \notin DOMAIN active_sse_connections
          THEN /\ active_sse_connections' = active_sse_connections
               /\ call' = [call EXCEPT ![w].pc = "unlock", ![w].raised = TRUE]
          ELSE /\ active_sse_connections' =
                      IF active_sse_connections[u] = <<>>
                      THEN [x \in DOMAIN active_sse_connections \ {u} |->
                               active_sse_connections[x]]
                      ELSE active_sse_connections
               /\ call' = [call EXCEPT ![w].pc = "unlock"]
    /\ UNCHANGED <<now, alerts, next_id, notifications, queues, sse, req,
                   nreq, hosted, out, sse_lock, session, login_otp_store,
                   otp_entries, verify>>

\* one turn of 'for queue in active_sse_connections[user_id]':
\* queue.put(notification_data); after the last queue the clean-up loop
\* runs over dead_queues, which is empty
SendPut(w) ==
    /\ call[w].pc = "put"
    /\ LET u == call[w].user_id
           list == IF u \in DOMAIN active_sse_connections
                   THEN active_sse_connections[u] ELSE <<>>
       IN IF call[w].i <= Len(list)
          THEN /\ queues' = [queues EXCEPT ![list[call[w].i]] =
                                 IF PutFails(list[call[w].i]) THEN @
                                 ELSE Append(@, call[w].payload)]
               /\ call' = [call EXCEPT ![w].i = @ + 1]
          ELSE /\ queues' = queues
               /\ call' = [call EXCEPT ![w].pc = "unlock"]
    /\ UNCHANGED <<now, alerts, next_id, notifications,
                   active_sse_connections, sse, req, nreq, hosted, out,
                   sse_lock, session, login_otp_store, otp_entries, verify>>

\* the end of the with block releases the lock and the function returns
Release(w) ==
    /\ call[w].pc = "unlock"
    /\ sse_lock' = Unlocked
    /\ call' = [call EXCEPT ![w] = IdleCall]
    /\ UNCHANGED <<now, alerts, next_id, notifications,
                   active_sse_connections, queues, sse, req, nreq, hosted,
                   out, session, login_otp_store, otp_entries, verify>>

\* -------------------------------------- concurrent administrative requests
\* the handlers that update the alert row
Updating == {op \in Ops : ~Deletes(op)}

\* the attributes a handler sets to get_philippine_time(): the new value
\* never equals the loaded one
Stamps(op) ==
    CASE op = "respond_alert" -> {"responded_at"}
      [] op \in {"resolve_alert_with_time", "mark_spam", "resolve_alert",
                 "alert_route.mark_spam", "alert_route.resolve_alert"}
             -> {"resolved_at"}
      [] OTHER -> {}

\* the row after the UPDATE of the unit of work: the ORM writes the
\* attributes whose value differs from the loaded one and leaves the other
\* columns as they are in the table
Flushed(cur, loaded, op, arg, t) ==
    LET new == Update(op, loaded, arg, t)
        dirty == {f \in DOMAIN loaded : new[f] # loaded[f]} \cup Stamps(op)
    IN [f \in DOMAIN cur |-> IF f \in dirty THEN new[f] ELSE cur[f]]

\* request parsing, validation and Alert.query.get
Load(w, op, a, arg) ==
    /\ session[w].pc \in {"idle", "done"}
    /\ nreq < MaxSessions
    /\ nreq' = nreq + 1
    /\ LET s == [IdleSession EXCEPT !.op = op, !.alert_id = a, !.arg = arg]
       IN session' = [session EXCEPT ![w] =
            IF RequiresArg(op) /\ (a = 0 \/ arg = Missing)
            THEN [IdleSession EXCEPT !.pc = "done", !.resp = 400]
            ELSE IF a \notin DOMAIN alerts
            THEN [IdleSession EXCEPT !.pc = "done", !.resp = 404]
            ELSE [s EXCEPT !.pc = "loaded", !.row = alerts[a]]]
    /\ UNCHANGED <<now, alerts, next_id, notifications,
                   active_sse_connections, queues, sse, req, hosted,
                   out, sse_lock, call, login_otp_store, otp_entries,
                   verify>>

\* the attribute assignments and db.session.commit()
Flush(w) ==
    /\ session[w].pc = "loaded"
    /\ LET s == session[w]
           a == s.alert_id
       IN /\ alerts' = [alerts EXCEPT
                           ![a] = Flushed(@, s.row, s.op, s.arg, now)]
          /\ session' = [v \in Workers |->
                IF v = w
                THEN IF Emits(s.op, UserStr(s.row.user_id))
                     THEN [s EXCEPT !.pc = "committed", !.at = now,
                                    !.since = <<>>]
                     ELSE [IdleSession EXCEPT !.pc = "done", !.resp = 200]
                ELSE IF session[v].pc = "loaded" /\ session[v].alert_id = a
                THEN [session[v] EXCEPT
                         !.since =
                             IF @ = <<>>
                             THEN <<[op |-> s.op, arg |-> s.arg,
                                     same |-> s.row = session[v].row]>>
                             ELSE <<Several, Several>>]
                ELSE session[v]]
    /\ UNCHANGED <<now, next_id, notifications, active_sse_connections,
                   queues, sse, req, nreq, hosted, out, sse_lock, call,
                   login_otp_store, otp_entries, verify>>

\* db.session.commit() raises: db.session.rollback(), 500
FlushFails(w) ==
    /\ session[w].pc = "loaded"
    /\ session' = [session EXCEPT ![w] =
                      [IdleSession EXCEPT !.pc = "done", !.resp = 500]]
    /\ UNCHANGED <<now, alerts, next_id, notifications,
                   active_sse_connections, queues, sse, req, nreq, hosted,
                   out, sse_lock, call, login_otp_store, otp_entries,
                   verify>>

\* save_notification(notification_data) after the commit: the INSERT, and
\* send_sse_notification when it went through; stored tells whether the
\* store accepts the INSERT
Emit(w, stored) ==
    /\ session[w].pc = "committed"
    /\ LET s == session[w]
           n == NotificationData(s.op, s.alert_id, UserStr(s.row.user_id),
                                 s.arg, now)
           ok == /\ stored
                 /\ BindsAllColumns(s.op)
                 /\ n.id \notin DOMAIN notifications
           targets == IF ok /\ n.user_id # "unknown"
                      THEN FanoutTargets(active_sse_connections, n.user_id)
                      ELSE {}
       IN /\ notifications' =
                 IF ok THEN notifications @@ (n.id :> n) ELSE notifications
          /\ queues' = [c \in Channels |->
                          IF c \in targets THEN Append(queues[c], n)
                          ELSE queues[c]]
          /\ session' = [session EXCEPT ![w] =
                            [IdleSession EXCEPT !.pc = "done", !.resp = 200]]
    /\ UNCHANGED <<now, alerts, next_id, active_sse_connections, sse, req,
                   nreq, hosted, out, sse_lock, call, login_otp_store,
                   otp_entries, verify>>

\* ------------------------------------------------------------ login OTP
OTP_EXPIRY_SECONDS == 600
MAX_OTP_ATTEMPTS == 5

UserGmails == {"user@gmail.com"}
Gmails == UserGmails \cup {"nobody@gmail.com"}

\* str(random.randint(100000, 999999))
Codes == {"100000", "999999"}

\* time.time() when the clock shows t: for the OTP requests a step of the
\* clock stands for TickSeconds seconds
time_time(t) == t * TickSeconds

\* otp_entries[e]: a dict {"otp", "timestamp", "attempts"} created by
\* send_login_otp; compared counts the executions of the comparison with
\* its otp
NewEntry(otp, t) ==
    [otp |-> otp, timestamp |-> time_time(t), attempts |-> 0, compared |-> 0]

Expired(e, t) == time_time(t) - e.timestamp > OTP_EXPIRY_SECONDS

\* login_otp_store after clean_expired_login_otps()
clean_expired_login_otps(store, entries, t) ==
    [g \in {x \in DOMAIN store : ~Expired(entries[store[x]], t)} |-> store[g]]

\* del login_otp_store[gmail]
Del(store, gmail) == [g \in DOMAIN store \ {gmail} |-> store[g]]

\* a dict that neither the store nor a request refers to any more is
\* freed
Freed == [otp |-> Missing, timestamp |-> 0, attempts |-> 0, compared |-> 0]

Collect(entries, store, requests) ==
    LET live == {store[g] : g \in DOMAIN store}
                    \cup {requests[w].stored_data : w \in Workers}
                    \cup {requests[w].target : w \in Workers}
    IN [e \in DOMAIN entries |-> IF e \in live THEN entries[e] ELSE Freed]

\* the request of worker w returns with a status code
Return(code) == [IdleVerify EXCEPT !.pc = "done", !.resp = code]

\* POST /send-otp
send_login_otp(gmail, otp, delivered) ==
    /\ Len(otp_entries) < MaxOtps
    /\ LET store == clean_expired_login_otps(login_otp_store, otp_entries, now)
       IN IF gmail = Missing
          THEN /\ login_otp_store' = store
               /\ otp_entries' = Collect(otp_entries, store, verify)
               /\ out' = Response("send_login_otp", 400)
          ELSE IF gmail \notin UserGmails
          THEN /\ login_otp_store' = store
               /\ otp_entries' = Collect(otp_entries, store, verify)
               /\ out' = Response("send_login_otp", 404)
          ELSE /\ login_otp_store' =
                      [g \in DOMAIN store \cup {gmail} |->
                          IF g = gmail THEN Len(otp_entries) + 1 ELSE store[g]]
               /\ otp_entries' =
                      Collect(Append(otp_entries, NewEntry(otp, now)),
                              login_otp_store', verify)
               /\ out' = Response("send_login_otp",
                                  IF delivered THEN 200 ELSE 500)
    /\ UNCHANGED <<now, alerts, next_id, notifications,
                   active_sse_connections, queues, sse, req, nreq, hosted,
                   sse_lock, call, session, verify>>

\* POST /verify-otp up to stored_data = login_otp_store.get(gmail)
verify_login_otp(w, gmail, otp) ==
    /\ verify[w].pc \in {"idle", "done"}
    /\ LET store == clean_expired_login_otps(login_otp_store, otp_entries, now)
       IN /\ login_otp_store' = store
          /\ verify' = [verify EXCEPT ![w] =
                IF gmail = Missing \/ otp = Missing THEN Return(400)
                ELSE IF gmail \notin DOMAIN store THEN Return(400)
                ELSE [IdleVerify EXCEPT !.pc = "check", !.gmail = gmail,
                                        !.otp = otp,
                                        !.stored_data = store[gmail]]]
          /\ otp_entries' = Collect(otp_entries, store, verify')
    /\ UNCHANGED <<now, alerts, next_id, notifications,
                   active_sse_connections, queues, sse, req, nreq, hosted,
                   out, sse_lock, call, session>>

\* stored_data["attempts"] >= MAX_OTP_ATTEMPTS does not hold
AttemptsLeft(e) == e.attempts < MAX_OTP_ATTEMPTS

\* the expiry check and the attempts check; del login_otp_store[gmail]
\* raises KeyError when the key is gone, which the handler answers with 500
VerifyCheck(w) ==
    /\ verify[w].pc = "check"
    /\ LET v == verify[w]
           e == otp_entries[v.stored_data]
           gone == v.gmail \notin DOMAIN login_otp_store
       IN IF Expired(e, now) \/ ~AttemptsLeft(e)
          THEN /\ login_otp_store' = Del(login_otp_store, v.gmail)
               /\ verify' = [verify EXCEPT ![w] =
                     Return(IF gone THEN 500
                            ELSE IF Expired(e, now) THEN 400 ELSE 429)]
          ELSE /\ login_otp_store' = login_otp_store
               /\ verify' = [verify EXCEPT ![w].pc = "compare"]
    /\ otp_entries' = Collect(otp_entries, login_otp_store', verify')
    /\ UNCHANGED <<now, alerts, next_id, notifications,
                   active_sse_connections, queues, sse, req, nreq, hosted,
                   out, sse_lock, call, session>>

\* stored_data["otp"] != otp.  A wrong code goes on to the increment and
\* reads login_otp_store[gmail]["attempts"]; the right code deletes the
\* key and the user is logged in
VerifyCompare(w) ==
    /\ verify[w].pc = "compare"
    /\ LET v == verify[w]
           e == otp_entries[v.stored_data]
           gone == v.gmail \notin DOMAIN login_otp_store
       IN /\ IF e.otp # v.otp
             THEN /\ login_otp_store' = login_otp_store
                  /\ verify' = [verify EXCEPT ![w] =
                        IF gone THEN Return(500)
                        ELSE [v EXCEPT
                                !.pc = "increment",
                                !.target = login_otp_store[v.gmail],
                                !.read = otp_entries[login_otp_store[v.gmail]].attempts]]
             ELSE /\ login_otp_store' = Del(login_otp_store, v.gmail)
                  /\ verify' = [verify EXCEPT ![w] =
                        Return(IF gone THEN 500 ELSE 200)]
          /\ otp_entries' =
                 Collect([otp_entries EXCEPT ![v.stored_data].compared = @ + 1],
                         login_otp_store', verify')
    /\ UNCHANGED <<now, alerts, next_id, notifications,
                   active_sse_connections, queues, sse, req, nreq, hosted,
                   out, sse_lock, call, session>>

\* the store of login_otp_store[gmail]["attempts"] += 1 into the dict
\* that was read, and the 400 response with the attempts remaining, for
\* which login_otp_store[gmail] is looked up again
VerifyIncrement(w) ==
    /\ verify[w].pc = "increment"
    /\ LET v == verify[w]
           gone == v.gmail \notin DOMAIN login_otp_store
           bumped == [otp_entries EXCEPT ![v.target].attempts = v.read + 1]
       IN /\ verify' = [verify EXCEPT ![w] =
                Return(IF gone THEN 500 ELSE 400)]
          /\ otp_entries' = Collect(bumped, login_otp_store, verify')
    /\ UNCHANGED <<now, alerts, next_id, notifications,
                   active_sse_connections, queues, sse, req, nreq, hosted,
                   out, sse_lock, call, session, login_otp_store>>

\* ------------------------------------------------------- specifications
\* the administrative handlers, step by step
Steps ==
    \/ \E t \in Threads : CommitOk(t)
    \/ \E t \in Threads : CommitFails(t)
    \/ \E t \in Threads : SaveOk(t)
    \/ \E t \in Threads : SaveDuplicate(t)
    \/ \E t \in Threads : SaveInvalid(t)
    \/ \E t \in Threads : SaveFails(t)
    \/ \E t \in Threads : Fanout(t)
    \/ \E t \in Threads, k \in BOOLEAN : ReleaseMedia(t, k)

\* the outcomes of the uploads of at most n files
Uploads(n) == UNION {[1..k -> BOOLEAN] : k \in 0..n}

\* a submission with at most one photo
Submit ==
    \E u \in UserIds \cup {NoUser}, l \in BOOLEAN, p \in Uploads(1) :
        send_alert(u, l, p, <<>>)

Requests ==
    \/ \E t \in Threads, op \in Ops, a \in 0..MaxAlerts :
          \E arg \in ArgsFor(op) : StartRequest(t, op, a, arg)
    \/ Steps

\* the handlers that emit a notification
Emitters ==
    \/ \E t \in Threads, op \in {o \in Ops : Notifies(o)}, a \in 0..MaxAlerts :
          \E arg \in ArgsFor(op) : StartRequest(t, op, a, arg)
    \/ Steps

\* the live channel handlers
Streams ==
    \/ \E c \in Channels, u \in Recipients : SseConnect(c, u)
    \/ \E c \in Channels : SseNext(c)
    \/ \E c \in Channels : SseClose(c)

\* the recipient's endpoints of notification_route.py
Inbox ==
    \/ \E id \in NotifIds : mark_notification_read(id)
    \/ \E u \in Recipients \cup {Missing} : mark_all_read(u)
    \/ \E id \in NotifIds : delete_notification(id)
    \/ \E ids \in SUBSET DOMAIN notifications : bulk_delete_notifications(ids)

\* alert lifecycle and notification emission
NextAlerts == Tick \/ Submit \/ Requests

SpecAlerts == Init /\ [][NextAlerts]_vars

\* the notification log and its readers
NextLog == Tick \/ Submit \/ Emitters \/ Inbox

SpecLog == Init /\ [][NextLog]_vars

\* emission and live delivery
NextSse == Tick \/ Submit \/ Emitters \/ Streams

SpecSse == Init /\ [][NextSse]_vars

\* emission and live delivery where every handler that can run does run:
\* the server keeps iterating event_stream while the client is connected
\* (queue.get returns after at most 30 s) and runs a request to its end
SpecSseFair ==
    /\ SpecSse
    /\ WF_vars(Steps)
    /\ \A c \in Channels : WF_vars(SseNext(c))

\* the registry functions called by two workers
NextRegistry ==
    \/ \E w \in Workers, u \in Recipients, q \in Channels, n \in Payloads :
          \E fn \in {"add_sse_connection", "remove_sse_connection",
                     "send_sse_notification"} : RegistryCall(w, fn, u, q, n)
    \/ \E w \in Workers : Acquire(w)
    \/ \E w \in Workers : TestUser(w)
    \/ \E w \in Workers : AddCreate(w)
    \/ \E w \in Workers : AddAppend(w)
    \/ \E w \in Workers : RemoveItem(w)
    \/ \E w \in Workers : RemoveDelete(w)
    \/ \E w \in Workers : SendPut(w)
    \/ \E w \in Workers : Release(w)

SpecRegistry == Init /\ [][NextRegistry]_vars

\* two workers handling administrative requests on the same alerts
NextSessions ==
    \/ Submit
    \/ \E w \in Workers, op \in Updating, a \in 0..MaxAlerts :
          \E arg \in ArgsFor(op) : Load(w, op, a, arg)
    \/ \E w \in Workers : Flush(w)
    \/ \E w \in Workers : FlushFails(w)
    \/ \E w \in Workers, stored \in BOOLEAN : Emit(w, stored)

SpecSessions == Init /\ [][NextSessions]_vars

\* the login OTP requests of two workers
NextOtp ==
    \/ Tick
    \/ \E g \in Gmails \cup {Missing}, otp \in Codes, delivered \in BOOLEAN :
          send_login_otp(g, otp, delivered)
    \/ \E w \in Workers, g \in Gmails \cup {Missing}, otp \in Codes \cup {Missing} :
          verify_login_otp(w, g, otp)
    \/ \E w \in Workers : VerifyCheck(w)
    \/ \E w \in Workers : VerifyCompare(w)
    \/ \E w \in Workers : VerifyIncrement(w)

SpecOtp == Init /\ [][NextOtp]_vars

\* submissions with several files and the handlers that delete alerts
SubmitMedia ==
    \E u \in UserIds \cup {NoUser}, l \in BOOLEAN,
       p \in Uploads(MaxPhotos), v \in Uploads(MaxVideos) :
        send_alert(u, l, p, v)

Removals ==
    \/ \E t \in Threads, op \in {o \in Ops : Deletes(o)}, a \in 0..MaxAlerts :
          StartRequest(t, op, a, Missing)
    \/ \E t \in Threads : SaveInvalid(t)
    \/ \E t \in Threads, k \in BOOLEAN : ReleaseMedia(t, k)
    \/ \E t \in Threads : CommitOk(t)
    \/ \E t \in Threads : CommitFails(t)
    \/ \E u \in UserIds, k \in BOOLEAN : clear_alerts(u, k)

NextMedia == Tick \/ SubmitMedia \/ Removals

SpecMedia == Init /\ [][NextMedia]_vars

\* ================================================================ claims
LogAttempts == {"log", "log_failed", "log_duplicate", "log_invalid"}

\* thread t takes a step of its handler
Moves(t) == req'[t] # req[t]

Last(tr) == tr[Len(tr)]

\* the step of thread t is a notification log write that fails
LogWriteFails(t) ==
    /\ req[t].pc = "save"
    /\ Moves(t)
    /\ Last(req'[t].trace) \in {"log_failed", "log_duplicate", "log_invalid"}

Registered(c) ==
    \E u \in DOMAIN active_sse_connections :
        c \in Range(active_sse_connections[u])

\* the payloads channel c was handed, in order
Received(c) == sse[c].sent \o queues[c]

\* C1: after any sequence of lifecycle actions the resolved flag of every
\* alert is true exactly when its status is 'resolved' or 'spam'
C1_ResolvedIffStatus ==
    \A a \in DOMAIN alerts :
        alerts[a].resolved <=> alerts[a].status \in {"resolved", "spam"}

\* C2: in every reachable state resolved_at of every alert is non-null
\* exactly when its resolved flag is true
C2_ResolvedAtIffResolved ==
    \A a \in DOMAIN alerts :
        (alerts[a].resolved_at # NoTime) <=> alerts[a].resolved

\* an alert that was resolved and then unresolved: the timestamp is cleared
C2_Witness ==
    \E a \in DOMAIN alerts :
        /\ alerts[a].status = "resolved"
        /\ ~alerts[a].resolved
        /\ alerts[a].resolved_at = NoTime

\* C3 as stated: in every handler the commit of the alert row precedes
\* the notification log write, which precedes the fan-out
C3_CommitBeforeLogBeforeFanout ==
    \A t \in Threads :
        \A i \in 1..Len(req[t].trace) :
            /\ req[t].trace[i] \in LogAttempts
                   => \E j \in 1..(i - 1) : req[t].trace[j] = "commit"
            /\ req[t].trace[i] = "fanout"
                   => \E j \in 1..(i - 1) : req[t].trace[j] \in LogAttempts

\* C3 amended: every handler but delete attempts the notification log
\* write only after the alert row is committed; delete attempts it before
\* it commits the removal of the row; every handler invokes the fan-out
\* only after the log write
C3_OrderExceptDelete ==
    [][\A t \in Threads :
          /\ (req[t].pc = "save" /\ Moves(t))
                => (("commit" \in Events(req[t]))
                        <=> req[t].op # "delete_alert_new")
          /\ (req[t].pc = "fanout" /\ Moves(t))
                => "log" \in Events(req[t])
          /\ (req[t].pc = "commit" /\ Moves(t) /\ req[t].op = "delete_alert_new")
                => Events(req[t]) \cap LogAttempts # {}]_vars

\* a handler that committed, logged and fanned out, in that order
C3_Witness ==
    \E t \in Threads :
        /\ req[t].pc = "done"
        /\ req[t].resp = 200
        /\ req[t].trace = <<"commit", "log", "fanout">>

\* C4: when the commit of an administrative action fails, no notification
\* of that action was persisted or pushed to a live channel, the alert
\* table is as it was and the caller gets an error
C4_NoNotificationOnCommitFailure ==
    [][\A t \in Threads :
          (req[t].pc = "commit" /\ Moves(t)
           /\ Last(req'[t].trace) = "commit_failed")
              => /\ "log" \notin Events(req[t])
                 /\ "fanout" \notin Events(req[t])
                 /\ alerts' = alerts
                 /\ notifications' = notifications
                 /\ queues' = queues
                 /\ req'[t].pc = "done"
                 /\ req'[t].resp = 500]_vars

\* a delete whose commit failed after its notification log write was
\* attempted: the caller got an error and nothing was logged
C4_Witness ==
    \E t \in Threads :
        /\ req[t].pc = "done"
        /\ req[t].resp = 500
        /\ req[t].trace = <<"log_invalid", "media", "commit_failed">>
        /\ notifications = <<>>

\* C5: a notification log write that fails after the alert mutation was
\* committed leaves the alert table as committed, and the action still
\* answers success
C5_LogFailureNotFatal ==
    [][\A t \in Threads :
          (LogWriteFails(t) /\ "commit" \in Events(req[t]))
              => /\ alerts' = alerts
                 /\ req'[t].pc = "done"
                 /\ req'[t].resp = 200]_vars

\* an action that committed, failed to log and answered 200
C5_Witness ==
    \E t \in Threads :
        /\ req[t].pc = "done"
        /\ req[t].resp = 200
        /\ req[t].trace = <<"commit", "log_failed">>

\* C6: a payload is enqueued on a live channel only by a fan-out whose
\* notification was committed to the log by the same call, and a failed
\* log write enqueues nothing and leads to no fan-out
C6_PersistThenFanout ==
    [][/\ \A c \in Channels :
              Len(queues'[c]) > Len(queues[c])
                  => \E t \in Threads :
                        /\ req[t].pc = "fanout"
                        /\ "log" \in Events(req[t])
                        /\ queues'[c] = Append(queues[c], req[t].notif)
       /\ \A t \in Threads :
              (req[t].pc = "save" /\ Moves(t))
                  => /\ queues' = queues
                     /\ IF Last(req'[t].trace) = "log"
                        THEN /\ Built(req[t], now).id \in DOMAIN notifications'
                             /\ notifications'[Built(req[t], now).id]
                                    = Built(req[t], now)
                        ELSE /\ req'[t].pc # "fanout"
                             /\ notifications' = notifications]_vars

\* a payload waiting on a live channel whose record is in the log
C6_Witness ==
    \E c \in Channels :
        /\ queues[c] # <<>>
        /\ Head(queues[c]).id \in DOMAIN notifications
        /\ notifications[Head(queues[c]).id] = Head(queues[c])

\* C7: no notification log write of a lifecycle transition is rejected
\* as a duplicate key
C7_DistinctIds ==
    \A t \in Threads : "log_duplicate" \notin Events(req[t])

\* C8: a persisted notification keeps its id, type, alert_id, message and
\* timestamp, and its read flag never goes from true back to false
C8_NotificationImmutable ==
    [][\A id \in DOMAIN notifications \cap DOMAIN notifications' :
          /\ notifications'[id].id = notifications[id].id
          /\ notifications'[id].type = notifications[id].type
          /\ notifications'[id].alert_id = notifications[id].alert_id
          /\ notifications'[id].message = notifications[id].message
          /\ notifications'[id].timestamp = notifications[id].timestamp
          /\ notifications[id].read => notifications'[id].read]_vars

\* a persisted notification that was marked read
C8_Witness ==
    \E id \in DOMAIN notifications : notifications[id].read

\* C9: once the transport has closed the stream, the channel of the
\* handler is no longer in the registry
C9_ClosedMeansDeregistered ==
    \A c \in Channels : sse[c].torn => ~Registered(c)

\* C10: a fan-out enqueues the payload on every channel registered for
\* the recipient, two of them as well as the one left after the other
\* was deregistered
C10_FanoutReachesAllRegistered ==
    [][\A t \in Threads :
          (req[t].pc = "fanout" /\ Moves(t))
              => \A c \in Channels :
                    (/\ req[t].notif.user_id \in DOMAIN active_sse_connections
                     /\ c \in Range(active_sse_connections[req[t].notif.user_id]))
                        => queues'[c] = Append(queues[c], req[t].notif)]_vars

\* two channels of one recipient were handed the same payload, one was
\* then deregistered, and the other was handed a second payload
C10_Witness ==
    \E c \in Channels, d \in Channels :
        /\ c # d
        /\ sse[c].user = sse[d].user
        /\ sse[c].pc = "closed"
        /\ Len(sse[c].sent) = 1
        /\ Registered(d)
        /\ Len(Received(d)) = 2
        /\ Received(d)[1] = sse[c].sent[1]

\* C11: a channel whose deregistration has completed is handed nothing by
\* any later fan-out: its queue never changes again
C11_DeregisteredReceivesNothing ==
    [][\A c \in Channels :
          sse[c].pc = "closed"
              => /\ queues'[c] = queues[c]
                 /\ sse'[c].sent = sse[c].sent
                 /\ ~Registered(c)]_vars

\* a fan-out has served the recipient of a deregistered channel: the
\* channel still registered holds the payload, the deregistered one holds
\* nothing
C11_Witness ==
    \E t \in Threads, c \in Channels, d \in Channels :
        /\ req[t].trace = <<"commit", "log", "fanout">>
        /\ sse[c].pc = "closed"
        /\ sse[c].sent = <<>>
        /\ queues[c] = <<>>
        /\ sse[d].user = sse[c].user
        /\ Registered(d)
        /\ Len(Received(d)) = 1
        /\ Received(d)[1].id \in DOMAIN notifications

\* C12: a channel emits its notifications in the order the fan-outs
\* enqueued them: an emitted event is the oldest one waiting, the events
\* already emitted stay as they are, and a fan-out enqueues behind the
\* ones waiting
C12_FifoPerChannel ==
    [][\A c \in Channels :
          /\ sse'[c].sent # sse[c].sent
                => /\ queues[c] # <<>>
                   /\ sse'[c].sent = Append(sse[c].sent, Head(queues[c]))
                   /\ queues'[c] = Tail(queues[c])
          /\ Len(queues'[c]) > Len(queues[c])
                => /\ SubSeq(queues'[c], 1, Len(queues[c])) = queues[c]
                   /\ sse'[c].sent = sse[c].sent]_vars

\* a channel that emitted two notifications, the one enqueued first
\* (the older one) first
C12_Witness ==
    \E c \in Channels :
        /\ Len(sse[c].sent) = 2
        /\ sse[c].sent[1].timestamp < sse[c].sent[2].timestamp

\* channel c is registered for recipient u
RegisteredFor(c, u) ==
    u \in DOMAIN active_sse_connections /\ c \in Range(active_sse_connections[u])

\* the handler of thread t returns 200 in this step
Returns200(t) == Moves(t) /\ req'[t].pc = "done" /\ req'[t].resp = 200

IdsOf(q) == {q[i].id : i \in 1..Len(q)}

\* C13 as stated: a resolve-with-time action that succeeds on an alert
\* with a reporter has handed its notification to every channel open for
\* the reporter
C13_ResolveReachesBothChannels ==
    [][\A t \in Threads :
          (/\ req[t].op = "resolve_alert_with_time"
           /\ req[t].notif_user # "unknown"
           /\ "commit" \in Events(req[t])
           /\ Returns200(t))
              => \A c \in Channels :
                    RegisteredFor(c, req[t].notif_user)
                        => Len(Received(c)') = Len(Received(c)) + 1]_vars

\* C13 amended: when the notification log accepted the write of a
\* resolve-with-time action, the action hands the logged notification,
\* once, to every channel open for the reporter and to no other channel;
\* a channel emits every notification it was handed unless its stream is
\* closed first, and never the same id twice; when the log write fails
\* no channel is handed anything
C13_ResolveReachesOpenChannelsWhenLogged ==
    /\ [][\A t \in Threads :
             req[t].op = "resolve_alert_with_time" /\ Moves(t)
                 => /\ (req[t].pc = "save" /\ req[t].notif_user # "unknown"
                          /\ Last(req'[t].trace) = "log")
                        => req'[t].pc = "fanout"
                    /\ (req[t].pc = "save") => queues' = queues
                    /\ (req[t].pc = "fanout")
                        => /\ req[t].notif.type = "resolved"
                           /\ req[t].notif.id \in DOMAIN notifications
                           /\ \A c \in Channels :
                                 queues'[c] =
                                     IF RegisteredFor(c, req[t].notif_user)
                                     THEN Append(queues[c], req[t].notif)
                                     ELSE queues[c]]_vars
    /\ [](\A c \in Channels :
             \A i \in 1..Len(Received(c)), j \in 1..Len(Received(c)) :
                 i # j => Received(c)[i].id # Received(c)[j].id)
    /\ \A c \in Channels : \A id \in NotifIds :
          (id \in IdsOf(queues[c])) ~> (id \in IdsOf(sse[c].sent) \/ sse[c].torn)

\* two channels of one recipient have each emitted one data event, the
\* same 'resolved' notification
C13_Witness ==
    \E c \in Channels, d \in Channels :
        /\ c # d
        /\ sse[c].user = sse[d].user
        /\ ~sse[c].torn /\ ~sse[d].torn
        /\ Len(sse[c].sent) = 1
        /\ sse[c].sent = sse[d].sent
        /\ sse[c].sent[1].type = "resolved"
        /\ sse[c].sent[1].id \in DOMAIN notifications

\* the step of thread t is a db.session.commit() that succeeds
Commits(t) ==
    req[t].pc = "commit" /\ Moves(t) /\ Last(req'[t].trace) = "commit"

\* the step of thread t is a notification log write, accepted or not
Logs(t) == req[t].pc = "save" /\ Moves(t)

\* the log after one record of the given content was added to it at the
\* current second
LogGains(a, user, type, message, resolve_time) ==
    /\ NotifId(a, now) \notin DOMAIN notifications
    /\ notifications' = notifications @@
           (NotifId(a, now) :>
               [id |-> NotifId(a, now), user_id |-> user, type |-> type,
                message |-> message, alert_id |-> ToString(a),
                resolve_time |-> resolve_time, timestamp |-> now,
                read |-> FALSE])

\* C14 as stated: a respond action that succeeds on an alert with a
\* reporter has persisted a notification of type 'response' with the
\* message for the reporter; on an alert without reporter it has written
\* none
C14_RespondPersistsNotification ==
    [][\A t \in Threads :
          (req[t].op = "respond_alert" /\ Returns200(t))
              => LET a == req[t].alert_id
                 IN /\ alerts'[a].admin_response = req[t].arg
                    /\ alerts'[a].status = "received"
                    /\ IF alerts'[a].user_id = NoUser
                       THEN Events(req'[t]) \cap LogAttempts = {}
                       ELSE \E id \in DOMAIN notifications' :
                               /\ notifications'[id].type = "response"
                               /\ notifications'[id].message = req[t].arg
                               /\ notifications'[id].user_id
                                      = ToString(alerts'[a].user_id)]_vars

\* C14 amended: the commit of respond sets admin_response, responded_at
\* and status and nothing else; for an alert with a reporter the handler
\* then makes exactly one notification log write, which adds one record of
\* type 'response' with the message for the reporter when the log accepts
\* it and adds nothing when it does not, and the action answers success
\* either way; for an alert without reporter it returns after the commit
\* and writes no notification
C14_RespondAttemptsOneNotification ==
    [][\A t \in Threads :
          req[t].op = "respond_alert" /\ Moves(t)
              => LET a == req[t].alert_id
                 IN /\ Commits(t)
                        => /\ alerts' = [alerts EXCEPT ![a] =
                                 [alerts[a] EXCEPT
                                     !.admin_response = req[t].arg,
                                     !.responded_at = now,
                                     !.status = "received"]]
                           /\ notifications' = notifications
                           /\ IF alerts[a].user_id = NoUser
                              THEN Returns200(t)
                              ELSE req'[t].pc = "save"
                    /\ Logs(t)
                        => /\ alerts[a].user_id # NoUser
                           /\ "commit" \in Events(req[t])
                           /\ Events(req[t]) \cap LogAttempts = {}
                           /\ alerts' = alerts
                           /\ IF Last(req'[t].trace) = "log"
                              THEN LogGains(a, ToString(alerts[a].user_id),
                                            "response", req[t].arg, NULL)
                              ELSE notifications' = notifications
                                   /\ Returns200(t)
                    /\ req[t].pc = "fanout"
                        => /\ notifications' = notifications
                           /\ alerts' = alerts
                           /\ Returns200(t)]_vars

\* an alert that was responded to, and the 'response' notification with
\* the same message in its reporter's log
C14_Witness ==
    \E a \in DOMAIN alerts, id \in DOMAIN notifications :
        /\ alerts[a].status = "received"
        /\ alerts[a].admin_response \in Messages
        /\ alerts[a].responded_at # NoTime
        /\ notifications[id].type = "response"
        /\ notifications[id].message = alerts[a].admin_response
        /\ notifications[id].user_id = ToString(alerts[a].user_id)
        /\ notifications[id].alert_id = ToString(a)

\* C15 as stated: a resolve-with-time action that succeeds has set the
\* four fields and has persisted a notification of type 'resolved' that
\* carries the resolve_time
C15_ResolvePersistsNotification ==
    [][\A t \in Threads :
          (req[t].op = "resolve_alert_with_time" /\ Returns200(t))
              => LET a == req[t].alert_id
                 IN /\ alerts'[a].status = "resolved"
                    /\ alerts'[a].resolved
                    /\ alerts'[a].resolved_at # NoTime
                    /\ alerts'[a].resolve_time = req[t].arg
                    /\ \E id \in DOMAIN notifications' :
                          /\ notifications'[id].type = "resolved"
                          /\ notifications'[id].alert_id = ToString(a)
                          /\ notifications'[id].resolve_time = req[t].arg]_vars

\* C15 amended: the commit of resolve-with-time sets status, resolved,
\* resolved_at and resolve_time and nothing else; the handler then makes
\* exactly one notification log write, which adds one record of type
\* 'resolved' carrying the resolve_time, for the reporter or for
\* 'unknown', when the log accepts it and adds nothing when it does not,
\* and the action answers success either way
C15_ResolveAttemptsOneNotification ==
    [][\A t \in Threads :
          req[t].op = "resolve_alert_with_time" /\ Moves(t)
              => LET a == req[t].alert_id
                 IN /\ Commits(t)
                        => /\ alerts' = [alerts EXCEPT ![a] =
                                 [alerts[a] EXCEPT
                                     !.status = "resolved",
                                     !.resolved = TRUE,
                                     !.resolved_at = now,
                                     !.resolve_time = req[t].arg]]
                           /\ req[t].arg \in ResolveTimes
                           /\ notifications' = notifications
                           /\ req'[t].pc = "save"
                    /\ Logs(t)
                        => /\ "commit" \in Events(req[t])
                           /\ Events(req[t]) \cap LogAttempts = {}
                           /\ alerts' = alerts
                           /\ IF Last(req'[t].trace) = "log"
                              THEN LogGains(a,
                                      IF alerts[a].user_id = NoUser
                                      THEN "unknown"
                                      ELSE ToString(alerts[a].user_id),
                                      "resolved", "Fire has been extinguished",
                                      req[t].arg)
                              ELSE notifications' = notifications
                                   /\ Returns200(t)
                    /\ req[t].pc = "fanout"
                        => /\ notifications' = notifications
                           /\ alerts' = alerts
                           /\ Returns200(t)]_vars

\* an alert resolved with a time, and the 'resolved' notification that
\* carries the same time in the log
C15_Witness ==
    \E a \in DOMAIN alerts, id \in DOMAIN notifications :
        /\ alerts[a].status = "resolved"
        /\ alerts[a].resolved
        /\ alerts[a].resolve_time \in ResolveTimes
        /\ notifications[id].type = "resolved"
        /\ notifications[id].alert_id = ToString(a)
        /\ notifications[id].resolve_time = alerts[a].resolve_time
        /\ notifications[id].timestamp = alerts[a].resolved_at

\* C16: the commit of every mark-spam handler sets status='spam',
\* resolved=true and resolved_at=now, and the handler goes on to write one
\* notification of type 'spam' for the reporter
C16_MarkSpamEmitsNotification ==
    [][\A t \in Threads :
          req[t].op \in {"mark_spam", "alert_route.mark_spam"} /\ Moves(t)
              => LET a == req[t].alert_id
                 IN /\ Commits(t)
                        => /\ alerts'[a].status = "spam"
                           /\ alerts'[a].resolved
                           /\ alerts'[a].resolved_at = now
                           /\ req'[t].pc = "save"
                    /\ (Logs(t) /\ Last(req'[t].trace) = "log")
                        => LogGains(a, UserStr(alerts[a].user_id), "spam",
                                    "Your fire alert has been marked as spam",
                                    NULL)]_vars

\* C17: the commit of restore-from-spam on an alert whose status is spam
\* sets status='pending', resolved=false and resolved_at=null and nothing
\* else, and the handler then emits one notification: it makes exactly one
\* notification log write, of type 'restored' for the reporter (or for
\* 'unknown'), which the log records as such when it accepts it
C17_RestoreFromSpam ==
    [][\A t \in Threads :
          req[t].op = "restore_spam_alert" /\ Moves(t)
              => LET a == req[t].alert_id
                 IN /\ (Commits(t) /\ alerts[a].status = "spam")
                        => /\ alerts' = [alerts EXCEPT ![a] =
                                 [alerts[a] EXCEPT
                                     !.status = "pending",
                                     !.resolved = FALSE,
                                     !.resolved_at = NoTime]]
                           /\ notifications' = notifications
                           /\ req'[t].pc = "save"
                    /\ Logs(t)
                        => /\ "commit" \in Events(req[t])
                           /\ Events(req[t]) \cap LogAttempts = {}
                           /\ alerts' = alerts
                           /\ IF Last(req'[t].trace) = "log"
                              THEN LogGains(a,
                                      IF alerts[a].user_id = NoUser
                                      THEN "unknown"
                                      ELSE ToString(alerts[a].user_id),
                                      "restored",
                                      "Your fire alert has been restored",
                                      NULL)
                              ELSE notifications' = notifications
                    /\ req[t].pc = "fanout"
                        => /\ notifications' = notifications
                           /\ alerts' = alerts
                           /\ Returns200(t)]_vars

\* an alert that was marked spam and then restored: it is pending again
\* and the log holds its 'spam' notification and its later 'restored'
\* notification
C17_Witness ==
    \E a \in DOMAIN alerts :
        \E i \in DOMAIN notifications, j \in DOMAIN notifications :
            /\ alerts[a].status = "pending"
            /\ ~alerts[a].resolved
            /\ alerts[a].resolved_at = NoTime
            /\ notifications[i].type = "spam"
            /\ notifications[j].type = "restored"
            /\ notifications[i].alert_id = ToString(a)
            /\ notifications[j].alert_id = ToString(a)
            /\ notifications[i].timestamp < notifications[j].timestamp
            /\ notifications[j].user_id = UserStr(alerts[a].user_id)

\* C18: restore-from-spam changes no alert whose status is not 'spam', and
\* no step moves an alert from 'resolved' or 'received' to 'pending'
C18_RestoreOnlyFromSpam ==
    [][/\ \A t \in Threads :
              (/\ req[t].op = "restore_spam_alert"
               /\ Commits(t)
               /\ alerts[req[t].alert_id].status # "spam")
                  => alerts' = alerts
       /\ \A a \in DOMAIN alerts \cap DOMAIN alerts' :
              alerts[a].status \in {"resolved", "received"}
                  => alerts'[a].status # "pending"]_vars

C20_DeletePrecededByNotification ==
    [][\A t \in Threads :
          (Deletes(req[t].op) /\ Commits(t))
              => /\ req[t].alert_id \in DOMAIN alerts
                 /\ req[t].alert_id \notin DOMAIN alerts'
                 /\ Events(req[t]) \cap LogAttempts # {}]_vars

\* C21: an administrative action on an unknown alert id is answered with
\* 404, and respond or resolve-with-time without its alert id or its
\* required field with 400 (the validation comes first); in both cases the
\* handler ends there: no alert is changed, nothing is logged or pushed
C21_RejectedRequestChangesNothing ==
    [][\A t \in Threads, op \in Ops, a \in 0..MaxAlerts :
          \A arg \in ArgsFor(op) :
              StartRequest(t, op, a, arg) =>
                  LET invalid ==
                          /\ op \in {"respond_alert", "resolve_alert_with_time"}
                          /\ (a = 0 \/ arg = Missing)
                      unknown == a \notin DOMAIN alerts
                  IN /\ invalid => req'[t].resp = 400
                     /\ (unknown /\ ~invalid) => req'[t].resp = 404
                     /\ (unknown \/ invalid) =>
                            /\ req'[t].pc = "done"
                            /\ req'[t].trace = <<>>
                            /\ alerts' = alerts
                            /\ notifications' = notifications
                            /\ queues' = queues]_vars

\* a request was answered 400 while an alert exists: the alert is as it was
\* submitted and the log is empty
C21_Witness ==
    \E t \in Threads, a \in DOMAIN alerts :
        /\ req[t].pc = "done"
        /\ req[t].resp = 400
        /\ req[t].trace = <<>>
        /\ nreq = 1
        /\ alerts[a].status = "pending"
        /\ alerts[a].admin_response = NULL
        /\ notifications = <<>>

\* C22: mark-one-read and delete-one on a notification id that is not in
\* the log answer 404 and change no notification
C22_MissingNotificationReported ==
    [][\A id \in NotifIds :
          (/\ id \notin DOMAIN notifications
           /\ (mark_notification_read(id) \/ delete_notification(id)))
              => /\ out'.code = 404
                 /\ notifications' = notifications]_vars

\* C23: a submission without coordinates or without any photo or video is
\* answered 400 and inserts no row; a submission answered 200 inserts
\* exactly one alert, with status 'pending' and resolved false, touches
\* neither the notification log nor a channel, and the new alert is in the
\* active-alerts listing at once
C23_SubmitInsertsOnePendingAlert ==
    [][\A u \in UserIds \cup {NoUser}, l \in BOOLEAN,
          p \in Uploads(MaxPhotos), v \in Uploads(MaxVideos) :
          send_alert(u, l, p, v) =>
              /\ (~l \/ (p = <<>> /\ v = <<>>)) =>
                     /\ out'.code = 400
                     /\ alerts' = alerts
              /\ out'.code # 200 => alerts' = alerts
              /\ out'.code = 200 =>
                     /\ Cardinality(DOMAIN alerts' \ DOMAIN alerts) = 1
                     /\ \A a \in DOMAIN alerts : alerts'[a] = alerts[a]
                     /\ \A a \in DOMAIN alerts' \ DOMAIN alerts :
                            /\ alerts'[a].status = "pending"
                            /\ alerts'[a].resolved = FALSE
                            /\ alerts'[a].user_id = u
                            /\ a \in DOMAIN get_alerts(alerts')
                            /\ a \in DOMAIN alert_route_get_alerts(alerts')
                            /\ alert_route_get_alerts(alerts')[a].status
                                   = "pending"
              /\ notifications' = notifications
              /\ queues' = queues]_vars

\* a submission was accepted: its alert is the one row of the active
\* listing, pending, and nothing was logged
C23_Witness ==
    /\ out.op = "send_alert"
    /\ out.code = 200
    /\ DOMAIN alert_route_get_alerts(alerts) = {1}
    /\ alerts[1].status = "pending"
    /\ alerts[1].resolved = FALSE
    /\ notifications = <<>>

\* C24 as stated: a submission in which an upload failed is rejected and
\* inserts no alert row
C24_AnyUploadFailureRejects ==
    [][(out' # out /\ out'.op = "send_alert" /\ out'.failed > 0)
          => /\ out'.code # 200
             /\ alerts' = alerts]_vars

\* C24: a submission is rejected for its uploads, with 500 and without
\* inserting a row, exactly when every upload failed; when at least one
\* upload succeeded the alert is inserted with the media that were
\* uploaded, whatever failed
C24_AllUploadsFailedRejects ==
    [][\A u \in UserIds \cup {NoUser},
          p \in Uploads(MaxPhotos), v \in Uploads(MaxVideos) :
          (send_alert(u, TRUE, p, v) /\ (p # <<>> \/ v # <<>>)) =>
              IF (\A i \in 1..Len(p) : ~p[i]) /\ (\A i \in 1..Len(v) : ~v[i])
              THEN /\ out'.code = 500
                   /\ alerts' = alerts
                   /\ hosted' = hosted
              ELSE /\ out'.code = 200
                   /\ \E a \in DOMAIN alerts' \ DOMAIN alerts :
                        /\ alerts'[a].photo_filename =
                             (IF \E i \in 1..Len(p) : p[i]
                              THEN json_dumps(UploadedUrls(a, "photos", p))
                              ELSE NoText)
                        /\ alerts'[a].video_filename =
                             (IF \E i \in 1..Len(v) : v[i]
                              THEN json_dumps(UploadedUrls(a, "videos", v))
                              ELSE NoText)]_vars

\* a submission of two photos, one of which failed to upload, was accepted:
\* the alert carries the one photo that was uploaded
C24_Witness ==
    /\ out.op = "send_alert"
    /\ out.code = 200
    /\ out.failed = 1
    /\ 1 \in DOMAIN alerts
    /\ Len(json_loads(alerts[1].photo_filename)) = 1
    /\ alerts[1].video_filename = NoText

\* C25: once resolve-with-time has committed, the alert is no longer in the
\* active-alerts listing and is in the resolved-alerts listing (of the
\* blueprint and of app.py alike)
C25_ResolvedLeavesActiveListing ==
    [][\A t \in Threads :
          (req[t].op = "resolve_alert_with_time" /\ Commits(t))
              => LET a == req[t].alert_id
                 IN /\ a \notin DOMAIN alert_route_get_alerts(alerts')
                    /\ a \notin DOMAIN get_alerts(alerts')
                    /\ a \in DOMAIN alert_route_get_resolved_alerts(alerts')
                    /\ a \in DOMAIN get_resolved_alerts(alerts')]_vars

\* resolve-with-time succeeded on the alert: the active listing is empty
\* and the resolved listing holds the alert with its resolve time
C25_Witness ==
    \E t \in Threads :
        /\ req[t].pc = "done"
        /\ req[t].resp = 200
        /\ req[t].trace[1] = "commit"
        /\ DOMAIN alert_route_get_alerts(alerts) = {}
        /\ DOMAIN alert_route_get_resolved_alerts(alerts) = {1}
        /\ alerts[1].resolve_time \in ResolveTimes

\* C26: once mark-spam has committed, the alert is in the spam listing and
\* in neither the active nor the resolved listing, whichever handler serves
\* the listing; once restore-from-spam has committed, the alert is in the
\* active listing with status 'pending' and no resolved_at
C26_SpamOnlyInSpamListing ==
    [][\A t \in Threads :
          Commits(t) =>
              LET a == req[t].alert_id
              IN /\ req[t].op \in {"mark_spam", "alert_route.mark_spam"} =>
                        /\ a \in DOMAIN get_spam_alerts(alerts')
                        /\ a \in DOMAIN alert_route_get_spam_alerts(alerts')
                        /\ get_spam_alerts(alerts')[a].status = "spam"
                        /\ a \notin DOMAIN get_alerts(alerts')
                        /\ a \notin DOMAIN alert_route_get_alerts(alerts')
                        /\ a \notin DOMAIN alert_route_get_resolved_alerts(alerts')
                        /\ a \notin DOMAIN get_resolved_alerts(alerts')
                 /\ req[t].op = "restore_spam_alert" =>
                        /\ a \in DOMAIN get_alerts(alerts')
                        /\ a \in DOMAIN alert_route_get_alerts(alerts')
                        /\ get_alerts(alerts')[a].status = "pending"
                        /\ get_alerts(alerts')[a].resolved_at = NoTime
                        /\ a \notin DOMAIN get_spam_alerts(alerts')]_vars

\* C27: for resolve-with-time, mark-spam, restore-from-spam and delete on an
\* alert without a reporter, the notification log write is addressed to
\* 'unknown', is not rejected for what the handler put in the record, and a
\* write the log accepts leaves that record in the log
C27_UnknownRecipientStillLogged ==
    [][\A t \in Threads :
          (/\ Logs(t)
           /\ req[t].op \in {"resolve_alert_with_time", "mark_spam",
                             "restore_spam_alert", "delete_alert_new"}
           /\ req[t].notif_user = "unknown")
              => /\ Last(req'[t].trace) # "log_invalid"
                 /\ Last(req'[t].trace) = "log" =>
                        \E id \in DOMAIN notifications' \ DOMAIN notifications :
                            /\ notifications'[id].user_id = "unknown"
                            /\ notifications'[id].type = NotifType(req[t].op)]_vars

\* C28: the fan-out of a notification whose recipient has no registered
\* channel changes neither the registry nor any queue and does not fail
\* the handler, and the notification is in the recipient's listing
C28_FanoutToAbsentRecipient ==
    [][\A t \in Threads :
          (/\ req[t].pc = "fanout"
           /\ Moves(t)
           /\ req[t].notif.user_id \notin DOMAIN active_sse_connections)
              => LET n == req[t].notif
                     listing == get_user_notifications(notifications', n.user_id)
                 IN /\ active_sse_connections' = active_sse_connections
                    /\ queues' = queues
                    /\ req'[t].pc = "done"
                    /\ req'[t].resp = 200
                    /\ n.id \in DOMAIN listing
                    /\ listing[n.id] = n]_vars

\* an action on the alert of reporter 1 ended while no channel was ever
\* open: nothing was delivered and the listing of reporter 1 holds the
\* notification
C28_Witness ==
    \E t \in Threads :
        /\ req[t].pc = "done"
        /\ req[t].resp = 200
        /\ req[t].trace = <<"commit", "log", "fanout">>
        /\ active_sse_connections = <<>>
        /\ \A c \in Channels : Received(c) = <<>>
        /\ DOMAIN get_user_notifications(notifications, "1") # {}

\* the assets Cloudinary holds for the photos and videos an alert row lists
MediaOf(row) ==
    LET photos == json_loads(row.photo_filename)
        videos == json_loads(row.video_filename)
    IN {<<PublicIdsIn(photos[k])[1], "image">> : k \in 1..Len(photos)}
       \cup {<<PublicIdsIn(videos[k])[1], "video">> : k \in 1..Len(videos)}

\* C29: when a delete (admin delete, spam delete or bulk clear by the
\* reporter) removes an alert row and Cloudinary carried out the destroy
\* calls it received, the media step came before the removal and none of
\* the photos and videos of the alert is still hosted
C29_DeleteReleasesAllMedia ==
    [][/\ \A t \in Threads :
             (/\ Deletes(req[t].op)
              /\ Commits(t)
              /\ "media_failed" \notin Events(req[t]))
                 => /\ "media" \in Events(req[t])
                    /\ MediaOf(alerts[req[t].alert_id]) \cap hosted' = {}
       /\ (out' # out /\ out'.op = "clear_alerts" /\ out'.failed = 0)
             => \A a \in DOMAIN alerts \ DOMAIN alerts' :
                    MediaOf(alerts[a]) \cap hosted' = {}]_vars

C38_FanoutOnlyToOwnChannels ==
    [][\A t \in Threads :
          (req[t].pc = "fanout" /\ Moves(t))
              => \A c \in Channels :
                    queues'[c] # queues[c]
                        => /\ RegisteredFor(c, req[t].notif.user_id)
                           /\ sse[c].user = req[t].notif.user_id
                           /\ queues'[c] = Append(queues[c], req[t].notif)]_vars

\* reporter 1 and another recipient each have an open channel and a
\* notification was fanned out: the channel of reporter 1 was handed the
\* notification addressed to reporter 1, the other channel nothing
C38_Witness ==
    \E c \in Channels, d \in Channels :
        /\ RegisteredFor(c, "1")
        /\ RegisteredFor(d, "unknown")
        /\ Len(Received(c)) = 1
        /\ Received(c)[1].user_id = "1"
        /\ Received(d) = <<>>

\* C39: a notification addressed to 'unknown' that the log accepts is in
\* the log, no log write for 'unknown' is followed by a fan-out, and no
\* channel, whatever recipient it was opened under, is ever handed a
\* notification addressed to 'unknown'
C39_UnknownNeverEnqueued ==
    /\ [][\A t \in Threads :
             (Logs(t) /\ req[t].notif_user = "unknown")
                 => /\ req'[t].pc # "fanout"
                    /\ queues' = queues
                    /\ Last(req'[t].trace) = "log"
                         => \E id \in DOMAIN notifications' \ DOMAIN notifications :
                               notifications'[id].user_id = "unknown"]_vars
    /\ [](\A c \in Channels : \A i \in 1..Len(Received(c)) :
             Received(c)[i].user_id # "unknown")

\* a channel is open under the recipient identity 'unknown' and the log
\* holds a notification addressed to 'unknown' whose action has ended: the
\* channel was handed nothing
C39_Witness ==
    \E c \in Channels, t \in Threads :
        /\ RegisteredFor(c, "unknown")
        /\ sse[c].pc \in YieldPoints
        /\ ~sse[c].torn
        /\ req[t].pc = "done"
        /\ req[t].trace = <<"commit", "log">>
        /\ \E id \in DOMAIN notifications : notifications[id].user_id = "unknown"
        /\ Received(c) = <<>>

\* C35: when the release of the hosted media fails during a delete, the
\* handler goes on to remove the row exactly as after a release that
\* worked: the failed release changes neither the alert nor the response,
\* and the commit that follows removes the row and answers 200
C35_MediaFailureDoesNotStopDelete ==
    [][\A t \in Threads :
          /\ (req[t].pc = "media" /\ Moves(t))
                => /\ req'[t].pc = "commit"
                   /\ req'[t].alert_id = req[t].alert_id
                   /\ alerts' = alerts
          /\ (Commits(t) /\ "media_failed" \in Events(req[t]))
                => /\ Deletes(req[t].op)
                   /\ req[t].alert_id \in DOMAIN alerts
                   /\ req[t].alert_id \notin DOMAIN alerts'
                   /\ req'[t].pc = "done"
                   /\ req'[t].resp = 200]_vars

\* a delete whose media release failed has ended: the caller got 200, the
\* row is gone and the media are still hosted
C35_Witness ==
    \E t \in Threads :
        /\ req[t].pc = "done"
        /\ req[t].resp = 200
        /\ req[t].trace = <<"media_failed", "commit">>
        /\ alerts = <<>>
        /\ hosted # {}

\* the listings of route/alert_route.py that hold alert a
ListingsOf(a) ==
    {l \in {"active", "resolved", "spam"} :
        \/ l = "active" /\ a \in DOMAIN alert_route_get_alerts(alerts)
        \/ l = "resolved" /\ a \in DOMAIN alert_route_get_resolved_alerts(alerts)
        \/ l = "spam" /\ a \in DOMAIN alert_route_get_spam_alerts(alerts)}

\* C36: every existing alert is in exactly one of the active, resolved and
\* spam listings
C36_ExactlyOneListing ==
    \A a \in DOMAIN alerts : Cardinality(ListingsOf(a)) = 1

\* channel c's handler is resumed and stays live: it leaves a yield with
\* the stream still open, having dequeued or yielded something
Resumed(c) ==
    /\ sse[c].pc \in YieldPoints
    /\ ~sse'[c].torn
    /\ sse'[c] # sse[c] \/ Len(queues'[c]) < Len(queues[c])

\* C34: a live handler yields a heartbeat only when its queue was empty;
\* what it dequeues is the head of its queue and is written as one data
\* event; the notifications handed to a channel that stays open are never
\* dropped or reordered; and the k-th notification handed to a channel is eventually
\* written unless the stream is closed
C34_HeartbeatOnlyWhenIdle ==
    /\ [][\A c \in Channels :
             /\ Resumed(c)
                 => /\ sse'[c].pc \in {"data", "heartbeat"}
                    /\ sse'[c].pc = "heartbeat"
                        <=> /\ queues[c] = <<>>
                            /\ sse'[c].sent = sse[c].sent
                            /\ queues'[c] = queues[c]
                    /\ sse'[c].pc = "data"
                        <=> /\ queues[c] # <<>>
                            /\ sse'[c].sent = Append(sse[c].sent, Head(queues[c]))
                            /\ queues'[c] = Tail(queues[c])
             /\ ~sse'[c].torn
                 => /\ Len(Received(c)') >= Len(Received(c))
                    /\ SubSeq(Received(c)', 1, Len(Received(c))) = Received(c)
             /\ sse'[c].sent # sse[c].sent => Resumed(c)]_vars
    /\ \A c \in Channels : \A k \in 1..MaxRequests :
          (Len(Received(c)) >= k) ~> (Len(sse[c].sent) >= k \/ sse[c].torn)

\* an open channel has written two data events and then, its queue empty,
\* a heartbeat
C34_Witness ==
    \E c \in Channels :
        /\ ~sse[c].torn
        /\ Len(sse[c].sent) = 2
        /\ queues[c] = <<>>
        /\ sse[c].pc = "heartbeat"

\* C40: a submitted code is compared with the OTP of a dict only while
\* fewer than MAX_OTP_ATTEMPTS codes have been compared with it: after
\* five comparisons no verification reaches the comparison, so none
\* succeeds, until send_login_otp stores a new dict
C40_AtMostFiveCompared ==
    [][\A w \in Workers :
          (verify[w].pc = "compare" /\ verify'[w].pc # "compare")
              => otp_entries[verify[w].stored_data].compared
                     < MAX_OTP_ATTEMPTS]_vars

\* worker w commits its update of an alert that exactly one other request,
\* which had loaded the same row, has updated since w loaded it
Overlapped(w) ==
    /\ session[w].pc = "loaded"
    /\ session'[w].pc \in {"committed", "done"}
    /\ session'[w].resp # 500
    /\ Len(session[w].since) = 1
    /\ session[w].since[1].same

\* C37: when two administrative actions on the same alert overlap, the row
\* after the second commit is the row that one of the two serial orders of
\* the two actions gives
C37_ConcurrentActionsSerialize ==
    [][\A w \in Workers :
          Overlapped(w)
              => LET s == session[w]
                     o == s.since[1]
                     mine(row) == Update(s.op, row, s.arg, now)
                     other(row) == Update(o.op, row, o.arg, now)
                 IN alerts'[s.alert_id]
                        \in {mine(other(s.row)), other(mine(s.row))}]_vars

\* what call c of a registry function makes of the registry and the queues
\* it found, when nothing else runs during the call
Serial(c) ==
    LET reg == c.base[1]
        qs == c.base[2]
    IN CASE c.fn = "add_sse_connection" ->
                <<add_sse_connection(reg, c.user_id, c.queue), qs>>
         [] c.fn = "remove_sse_connection" ->
                <<remove_sse_connection(reg, c.user_id, c.queue), qs>>
         [] OTHER ->
                <<PruneDead(reg, c.user_id),
                  [q \in Channels |->
                      IF q \in FanoutTargets(reg, c.user_id)
                      THEN Append(qs[q], c.payload) ELSE qs[q]]>>

\* worker w returns from its call
Returns(w) == call[w].pc = "unlock" /\ call'[w].pc = "idle"

\* C31: every call of add_sse_connection, remove_sse_connection and
\* send_sse_notification returns with the registry and the queues that the
\* call alone makes of the state it found when it took the lock, without
\* raising, and between taking the lock and returning nobody else has
\* changed them: the calls take effect one after the other in the order in
\* which they took the lock
C31_RegistryCallsSerialize ==
    [][/\ \A w \in Workers :
             Returns(w)
                 => /\ <<active_sse_connections, queues>> = Serial(call[w])
                    /\ ~call[w].raised
       /\ (active_sse_connections' # active_sse_connections \/ queues' # queues)
             => \E w \in Workers :
                   /\ sse_lock = w
                   /\ call[w].pc \notin {"idle", "lock"}
                   /\ call'[w] # call[w]
                   /\ \A v \in Workers \ {w} : call'[v] = call[v]]_vars

\* a fan-out has reached the two channels of a recipient while the other
\* worker waits for the lock to deregister one of them
C31_Witness ==
    \E w \in Workers, v \in Workers :
        /\ call[w].fn = "send_sse_notification"
        /\ call[w].pc = "unlock"
        /\ call[w].user_id \in DOMAIN active_sse_connections
        /\ Len(active_sse_connections[call[w].user_id]) = 2
        /\ \A q \in Range(active_sse_connections[call[w].user_id]) :
              queues[q] = <<call[w].payload>>
        /\ call[v].fn = "remove_sse_connection"
        /\ call[v].pc = "lock"
        /\ call[v].user_id = call[w].user_id

\* C33: remove_sse_connection called for a recipient that has no entry,
\* or with a queue that is not in the recipient's list, returns without
\* raising and leaves the registry and the queues as they were
C33_RemoveAbsentIsNoOp ==
    [][\A w \in Workers :
          (/\ Returns(w)
           /\ call[w].fn = "remove_sse_connection"
           /\ \/ call[w].user_id \notin DOMAIN call[w].base[1]
              \/ call[w].queue \notin Range(call[w].base[1][call[w].user_id]))
              => /\ ~call[w].raised
                 /\ active_sse_connections = call[w].base[1]
                 /\ queues = call[w].base[2]]_vars

\* a call of remove_sse_connection is about to return for a queue that
\* was not in the list of its recipient, who has another channel open
C33_Witness ==
    \E w \in Workers :
        /\ call[w].fn = "remove_sse_connection"
        /\ call[w].pc = "unlock"
        /\ ~call[w].raised
        /\ call[w].user_id \in DOMAIN active_sse_connections
        /\ call[w].queue \notin Range(active_sse_connections[call[w].user_id])
        /\ active_sse_connections = call[w].base[1]
====
